---- MODULE Spec2Model ----
(***************************************************************************)
(* Block-DAG consensus core: the DAG engine (BlockDAG) that keeps tips,    *)
(* past-set sizes, the common/temp blue sets and the total order, and the  *)
(* UTXO viewpoint that connects and disconnects transactions.              *)
(*                                                                         *)
(* Block hashes are the integers 1..MaxBlocks; the order of the integers   *)
(* stands for the order of the hashes' hex strings.  A nil *hash.Hash is   *)
(* Nil, a nil *BlockSet is NilSet, a nil slice is NilSeq.                  *)
(***************************************************************************)
EXTENDS Integers, Sequences, FiniteSets, TLC

\* ------------------------------------------------------------------ bounds
MaxBlocks == 6

MaxAnticoneSize == 1

WalkFuel == 12

MaxTxs == 3

MaxOuts == 2

MaxIns == 2

MaxBlockTxs == 2

MaxChain == 2

MaxCalls == 6
\* Transactions of a block of the journal specification.
JournalBlockTxs == 3
\* UTXO calls of a behaviour of the journal specification.
JournalCalls == 4
\* Transactions of a block handed to fetchInputUtxos.
FetchBlockTxs == 3
\* connectTransaction calls that fill the view before a fetch.
FetchPreload == 1
\* Transactions of a block handed to connectTransactions.
ConnectBlockTxs == 2
\* Blocks added by the AddBlock goroutine that runs beside a query.
StepBlocks == 4
\* Goroutines that call Start, Stop, AddInventory and RemoveInventory.
MaxClients == 2
\* Inventory hashes handed to the Rebroadcast.
MaxInvs == 2
\* Calls of Rebroadcast.Start and of Rebroadcast.Stop in a behaviour.
MaxStarts == 2
MaxStops == 3
\* Peers the Sync knows; one more remote is unknown to it.
MaxPeers == 2
\* Graph states a peer can report.
MaxGraphStates == 2
\* The cap of a peer's bad-response counter and of its scheduled updates.
MaxBad == 2

\* ------------------------------------------------------------- constants
GenesisHash == 1

Nil == 0

NilSet == {Nil}

NilSeq == <<Nil>>

Hashes == 1..MaxBlocks

\* Block hashes of the UTXO viewpoint's blocks start above this.
BlockHashBase == 100

VARIABLES
    index,            \* hashes of the blocks in the block index
    parents,          \* IBlock.GetParents of every indexed block
    children,         \* IBlock.GetChildren of every indexed block
    pastSetNum,       \* IBlock.GetPastSetNum
    height,           \* IBlock.GetHeight
    genesis,          \* BlockDAG.genesis
    totalBlocks,      \* BlockDAG.totalBlocks
    commonBlueSet,    \* BlockDAG.commonBlueSet
    tempBlueSet,      \* BlockDAG.tempBlueSet
    lastCommonBlocks, \* BlockDAG.lastCommonBlocks
    commonOrder,      \* BlockDAG.commonOrder
    tempOrder,        \* BlockDAG.tempOrder
    tips,             \* BlockDAG.tips
    anticoneSize,     \* BlockDAG.anticoneSize
    hourglassBlocks,  \* BlockDAG.hourglassBlocks
    refNodes,         \* the list the last AddBlock returned
    errorLog,         \* the log.Error lines of the last AddBlock
    hung,             \* TRUE when a loop of the last AddBlock did not exit
    utxoView,         \* the UtxoViewpoint: entries and bestHash
    chain,            \* the connected blocks, each with its spend journal
    undone,           \* the block disconnected last and what the view was before it
    utxoErr,          \* the error the last UTXO call returned
    utxoCalls,        \* the number of UTXO calls made
    badTx,            \* BlockChain's set of bad transactions
    fetched,          \* the last fetchInputUtxos call: its block and what it did
    connected,        \* the last connectTransactions call: its arguments and results
    adder,            \* the goroutine in AddBlock: its position, block and parents
    mtx,              \* BlockDAG.mtx: TRUE when held
    observed,         \* the query a reader goroutine made, and what it returned
    rbStarted,        \* Rebroadcast.started
    rbShutdown,       \* Rebroadcast.shutdown
    rbQuit,           \* Rebroadcast.quit: the number of times it was closed
    rbWg,             \* Rebroadcast.wg: its counter
    rbHandler,        \* the handler goroutine: its position, pendingInvs, the range
    rbClients,        \* the goroutines calling the Rebroadcast: position and message
    rbMempool,        \* the transaction hashes TxMemPool().HaveTransaction has
    rbRelayed,        \* the items RelayInventory got since the timer fired last
    rbPanic,          \* TRUE once a goroutine panicked
    syPeers,          \* Sync.peers: graph state and bad responses of each peer
    syUpdates,        \* the PeerUpdate goroutines started, per peer
    syCall            \* the last call into the Sync and what it returned

dagVars == <<index, parents, children, pastSetNum, height, genesis,
             totalBlocks, commonBlueSet, tempBlueSet, lastCommonBlocks,
             commonOrder, tempOrder, tips, anticoneSize, hourglassBlocks, refNodes,
             errorLog,
             hung>>

utxoVars == <<utxoView, chain, undone, utxoErr, utxoCalls>>

fetchVars == <<badTx, fetched, connected>>

stepVars == <<adder, mtx, observed>>

rebVars == <<rbStarted, rbShutdown, rbQuit, rbWg, rbHandler, rbClients,
             rbMempool, rbRelayed, rbPanic>>

syncVars == <<syPeers, syUpdates, syCall>>

\* The goroutines beside the DAG engine and the viewpoint.
sideVars == <<stepVars, rebVars, syncVars>>

\* What a statement of AddBlock or a query leaves alone.
notStepVars == <<utxoVars, fetchVars, rebVars, syncVars>>

\* What a step of the Rebroadcast leaves alone.
notRebVars == <<dagVars, utxoVars, fetchVars, stepVars, syncVars>>

\* What a call into the Sync leaves alone.
notSyncVars == <<dagVars, utxoVars, fetchVars, stepVars, rebVars>>

\* What a step of the DAG engine leaves alone.
notDagVars == <<utxoVars, fetchVars, sideVars>>

\* What a connect, disconnect or commit of the viewpoint leaves alone.
notUtxoVars == <<dagVars, fetchVars, sideVars>>

vars == <<dagVars, utxoVars, fetchVars, sideVars>>

\* ------------------------------------------------------------ BlockSet
\* The hashes of s in ascending order.
RECURSIVE Ascending(_)
Ascending(s) ==
    IF s = {} THEN <<>>
    ELSE LET m == CHOOSE x \in s : \A y \in s : x <= y
         IN <<m>> \o Ascending(s \ {m})

Reverse(q) == [i \in 1..Len(q) |-> q[Len(q) + 1 - i]]

\* Go leaves the iteration order of a map unspecified: one AddBlock sees the
\* hashes of every block set in one of these orders.
IterOrders(s) == {Ascending(s), Reverse(Ascending(s))}

\* The elements of set s in the order the map iteration of this AddBlock
\* visits them.
GetMap(bd, s) == SelectSeq(bd.iter, LAMBDA x : x \in s)

HasOnly(s, h) == s = {h}

Contain(s, other) == other \subseteq s

Range(q) == {q[i] : i \in DOMAIN q}

\* Body applied to the value v: a value computed once and used many times,
\* as a local variable of the Go code is.
Bind(v, Body(_)) == Body(v)

\* The whole BlockDAG object with the block index, as a record.
BlockDAG == [index |-> index, parents |-> parents, children |-> children,
             pastSetNum |-> pastSetNum, height |-> height, genesis |-> genesis,
             totalBlocks |-> totalBlocks, commonBlueSet |-> commonBlueSet,
             tempBlueSet |-> tempBlueSet, lastCommonBlocks |-> lastCommonBlocks,
             commonOrder |-> commonOrder, tempOrder |-> tempOrder, tips |-> tips,
             anticoneSize |-> anticoneSize,
             hourglassBlocks |-> hourglassBlocks, refNodes |-> <<>>, errorLog |-> {},
             hung |-> FALSE,
             iter |-> <<>>]

\* BlockDAG.Init: an empty DAG with anticone size k.
NewBlockDAG(k) == [anticoneSize |-> k, index |-> {}, parents |-> [h \in Hashes |-> {}],
                children |-> [h \in Hashes |-> {}],
                pastSetNum |-> [h \in Hashes |-> 0], height |-> [h \in Hashes |-> 0],
                genesis |-> Nil, totalBlocks |-> 0, commonBlueSet |-> NilSet,
                tempBlueSet |-> NilSet, lastCommonBlocks |-> NilSet,
                commonOrder |-> <<>>, tempOrder |-> NilSeq, tips |-> NilSet,
                hourglassBlocks |-> NilSet, refNodes |-> <<>>, errorLog |-> {},
                hung |-> FALSE,
                iter |-> <<>>]

\* index.AddNode: the block enters the index and every parent gets it as child.
AddNode(bd, b, ps) ==
    [bd EXCEPT !.index = @ \cup {b},
               !.parents = [@ EXCEPT ![b] = ps],
               !.children = [h \in Hashes |-> IF h \in ps THEN @[h] \cup {b} ELSE @[h]]]

\* ------------------------------------------------------------ updateTips
\* updateTips without the removal of the tips that got a child (l.177-185).
updateTipsKeepAll(bd, b) ==
    IF bd.tips = NilSet
    THEN [bd EXCEPT !.tips = {b}, !.genesis = b]
    ELSE [bd EXCEPT !.tips = @ \cup {b}]

updateTips(bd, b) ==
    IF bd.tips = NilSet
    THEN [bd EXCEPT !.tips = {b}, !.genesis = b]
    ELSE LET isBelong == b \in bd.tips
             kept == {k \in bd.tips : bd.children[k] = {}}
         IN [bd EXCEPT !.tips = IF isBelong THEN kept ELSE kept \cup {b}]

\* ---------------------------------------------------------- graph queries
RECURSIVE GetFutureSet(_, _, _)
RECURSIVE GetFutureSetLoop(_, _, _)
GetFutureSetLoop(bd, fs, ks) ==
    IF ks = <<>> THEN fs
    ELSE LET k == Head(ks)
         IN IF k \in fs THEN GetFutureSetLoop(bd, fs, Tail(ks))
            ELSE GetFutureSetLoop(bd, GetFutureSet(bd, fs \cup {k}, k), Tail(ks))

GetFutureSet(bd, fs, b) ==
    IF bd.children[b] = {} THEN fs
    ELSE GetFutureSetLoop(bd, fs, GetMap(bd, bd.children[b]))

\* The union of the future sets of the blocks of s (the callers' loops).
GetFutureSetOf(bd, s) ==
    LET RECURSIVE Loop(_, _)
        Loop(fs, ks) == IF ks = <<>> THEN fs
                        ELSE Loop(GetFutureSet(bd, fs, Head(ks)), Tail(ks))
    IN Loop({}, GetMap(bd, s))

\* isVirtualTip accepting only the children in the future set.
isVirtualTipFutureOnly(b, futureSet, anticone, chs) ==
    \A k \in chs : k # b /\ k \in futureSet

isVirtualTip(b, futureSet, anticone, chs) ==
    \A k \in chs : k # b /\ (k \in futureSet \/ k \in anticone)

RECURSIVE recAnticone(_, _, _, _, _)
RECURSIVE recAnticoneLoop(_, _, _, _, _)
recAnticoneLoop(bd, b, futureSet, anticone, ks) ==
    IF ks = <<>> THEN anticone
    ELSE recAnticoneLoop(bd, b, futureSet,
                         recAnticone(bd, b, futureSet, anticone, Head(ks)), Tail(ks))

recAnticone(bd, b, futureSet, anticone, h) ==
    IF h = b THEN anticone
    ELSE LET chs == bd.children[h]
             needRecursion == IF chs = {} THEN TRUE
                              ELSE isVirtualTip(b, futureSet, anticone, chs)
         IN IF needRecursion
            THEN recAnticoneLoop(bd, b, futureSet,
                                 IF h \notin futureSet THEN anticone \cup {h} ELSE anticone,
                                 GetMap(bd, bd.parents[h]))
            ELSE anticone

\* exclude = NilSet stands for a nil exclude set.
GetAnticone(bd, b, exclude) ==
    LET futureSet == GetFutureSet(bd, {}, b)
        anticone == recAnticoneLoop(bd, b, futureSet, {}, GetMap(bd, bd.tips))
    IN anticone \ exclude

\* ------------------------------------------------ calculatePastBlockSetNum
\* calculatePastBlockSetNum without the anOther term (l.281-289): the past of
\* the first parent only.
calculatePastBlockSetNumFirstParent(bd, b) ==
    IF b = bd.genesis THEN [bd EXCEPT !.pastSetNum[b] = 0]
    ELSE IF bd.parents[b] = {} THEN bd
    ELSE LET parentsList == GetMap(bd, bd.parents[b])
         IN [bd EXCEPT !.pastSetNum[b] = bd.pastSetNum[parentsList[1]] + 1]

calculatePastBlockSetNum(bd, b) ==
    IF b = bd.genesis THEN [bd EXCEPT !.pastSetNum[b] = 0]
    ELSE IF bd.parents[b] = {} THEN bd
    ELSE LET parentsList == GetMap(bd, bd.parents[b])
         IN IF Len(parentsList) = 1
            THEN [bd EXCEPT !.pastSetNum[b] = bd.pastSetNum[parentsList[1]] + 1]
            ELSE LET anticone == GetAnticone(bd, b, NilSet)
                     anOther == GetAnticone(bd, parentsList[1], anticone)
                 IN [bd EXCEPT !.pastSetNum[b] =
                         bd.pastSetNum[parentsList[1]] + Cardinality(anOther) + 1]

\* ------------------------------------------------------------ sortBlockSet
\* Less with ties broken for the larger hash.
LessLargerHashFirst(bd, a, b) ==
    IF bd.pastSetNum[a] = bd.pastSetNum[b] THEN a > b
    ELSE bd.pastSetNum[a] < bd.pastSetNum[b]

Less(bd, a, b) ==
    IF bd.pastSetNum[a] = bd.pastSetNum[b] THEN a < b
    ELSE bd.pastSetNum[a] < bd.pastSetNum[b]

RECURSIVE SortBlocks(_, _)
SortBlocks(bd, s) ==
    IF s = {} THEN <<>>
    ELSE LET m == CHOOSE x \in s : \A y \in s \ {x} : Less(bd, x, y)
         IN <<m>> \o SortBlocks(bd, s \ {m})

sortBlockSet(bd, set, bs) ==
    SortBlocks(bd, set \cap bs) \o SortBlocks(bd, set \ bs)

\* ------------------------------------------------------------ GetTempOrder
RECURSIVE getPastSetByOrder(_, _, _, _)
RECURSIVE getPastSetByOrderLoop(_, _, _, _)
getPastSetByOrderLoop(bd, pastSet, exclude, vs) ==
    IF vs = <<>> THEN pastSet
    ELSE getPastSetByOrderLoop(bd,
             getPastSetByOrder(bd, pastSet \cup {Head(vs)}, exclude, Head(vs)),
             exclude, Tail(vs))

getPastSetByOrder(bd, pastSet, exclude, h) ==
    IF h \in exclude \/ h \in pastSet THEN pastSet
    ELSE IF h = bd.genesis THEN pastSet
    ELSE IF bd.parents[h] = {} THEN pastSet
    ELSE getPastSetByOrderLoop(bd, pastSet, exclude, GetMap(bd, bd.parents[h]))

\* t is the pair of the caller's tempOrder slice and tempOrderM set.
RECURSIVE GetTempOrder(_, _, _, _, _)
RECURSIVE GetTempOrderEach(_, _, _, _, _, _, _)
RECURSIVE GetTempOrderChildren(_, _, _, _, _, _)
\* The loops of GetTempOrder that call it on the blocks of a sorted list:
\*   "uncleBlue": blue blocks of smaller past number not yet ordered (l.364-368)
\*   "blueNew":   blue blocks not yet ordered (l.371-375, l.422-426)
\*   "all":       every block (l.442-444)
\*   "red":       blocks outside the blue set (l.453-457)
GetTempOrderEach(bd, t, bs, vs, exclude, mode, lim) ==
    IF vs = <<>> THEN t
    ELSE LET v == Head(vs)
             go == CASE mode = "uncleBlue" ->
                          v \in bs /\ bd.pastSetNum[v] < lim /\ v \notin t.tempOrderM
                     [] mode = "blueNew" -> v \in bs /\ v \notin t.tempOrderM
                     [] mode = "red" -> v \notin bs
                     [] OTHER -> TRUE
         IN GetTempOrderEach(bd,
                IF go THEN GetTempOrder(bd, t, bs, v, exclude) ELSE t,
                bs, Tail(vs), exclude, mode, lim)

\* The loop over the blue children (l.402-452).
GetTempOrderChildren(bd, t, bs, sb, anticone, exclude) ==
    IF sb = <<>> THEN t
    ELSE LET v == Head(sb)
         IN IF v \notin bs
            THEN GetTempOrderChildren(bd, t, bs, Tail(sb), anticone, exclude)
            ELSE LET excludeT == t.tempOrderM \cup exclude
                     pastSet == getPastSetByOrder(bd, {}, excludeT, v)
                     inbs == pastSet \cap anticone
                     redSet == inbs \ bs
                     ta == GetTempOrderEach(bd, t, bs, sortBlockSet(bd, inbs, bs),
                                            exclude, "blueNew", 0)
                     isAllOrder == (pastSet \ redSet) \subseteq ta.tempOrderM
                     t1 == IF v \in t.tempOrderM \/ inbs = {} THEN t
                           ELSE IF redSet # {} /\ isAllOrder
                           THEN GetTempOrderEach(bd, ta, bs, sortBlockSet(bd, redSet, bs),
                                                 exclude, "all", 0)
                           ELSE ta
                 IN GetTempOrderChildren(bd, GetTempOrder(bd, t1, bs, v, exclude),
                                         bs, Tail(sb), anticone, exclude)

GetTempOrder(bd, t, bs, h, exclude) ==
    IF h \in exclude THEN t
    ELSE IF \E k \in bd.parents[h] : k \notin exclude /\ k \notin t.tempOrderM THEN t
    ELSE LET needAnticone == /\ h \notin t.tempOrderM
                             /\ h # bd.genesis
                             /\ h \notin bd.lastCommonBlocks
             anticone == IF needAnticone THEN GetAnticone(bd, h, exclude) ELSE {}
             ansb == sortBlockSet(bd, anticone, bs)
             t1 == IF anticone = {} THEN t
                   ELSE IF h \in bs
                   THEN GetTempOrderEach(bd, t, bs, ansb, exclude, "uncleBlue",
                                         bd.pastSetNum[h])
                   ELSE GetTempOrderEach(bd, t, bs, ansb, exclude, "blueNew", 0)
             t2 == IF h \notin t1.tempOrderM
                   THEN [tempOrder |-> Append(t1.tempOrder, h),
                         tempOrderM |-> t1.tempOrderM \cup {h}]
                   ELSE t1
             chs == bd.children[h] \ exclude
             sb == sortBlockSet(bd, chs, bs)
         IN IF chs = {} THEN t2
            ELSE GetTempOrderEach(bd,
                     GetTempOrderChildren(bd, t2, bs, sb, anticone, exclude),
                     bs, sb, exclude, "red", 0)

\* GetTempOrderFrom with the blocks appended in the opposite order.
GetTempOrderFromReversed(bd, lpsb, bs, exclude) ==
    Reverse(GetTempOrderEach(bd, [tempOrder |-> <<>>, tempOrderM |-> {}], bs, lpsb,
                             exclude, "all", 0).tempOrder)

\* The calls of GetTempOrder on the sorted last common blocks (l.484-486, l.955-957).
GetTempOrderFrom(bd, lpsb, bs, exclude) ==
    GetTempOrderEach(bd, [tempOrder |-> <<>>, tempOrderM |-> {}], bs, lpsb,
                     exclude, "all", 0).tempOrder

\* -------------------------------------------------------- updateCommonOrder
GetCommonOrderNum(bd) ==
    LET nz == {i \in 1..Len(bd.commonOrder) : bd.commonOrder[i] # Nil}
    IN IF nz = {} THEN 0 ELSE CHOOSE i \in nz : \A j \in nz : j <= i

\* The loop that writes the new order into commonOrder (l.489-500); i is the
\* 0-based index into tempOrder.
RECURSIVE updateCommonOrderWrite(_, _, _, _, _)
updateCommonOrderWrite(co, to, lcb, startIndex, i) ==
    IF i >= Len(to) THEN co
    ELSE IF to[i + 1] \in lcb
    THEN updateCommonOrderWrite(co, to, lcb, startIndex, i + 1)
    ELSE LET idx == startIndex + i
         IN updateCommonOrderWrite(
                IF idx < Len(co) THEN [co EXCEPT ![idx + 1] = to[i + 1]]
                ELSE Append(co, to[i + 1]),
                to, lcb, startIndex, i + 1)

\* The loop that nulls the tail of commonOrder on roll back (l.515-521).
RECURSIVE updateCommonOrderNull(_, _, _)
updateCommonOrderNull(co, cur, i) ==
    IF i < 1 THEN co
    ELSE IF co[i] \in cur THEN co
    ELSE updateCommonOrderNull([co EXCEPT ![i] = Nil], cur, i - 1)

\* updateCommonOrder that writes nothing after the genesis block.
updateCommonOrderSkipped(bd, tip, blueSet, isRollBack, exclude, curLastCommonBS, startIndex) ==
    IF tip = bd.genesis THEN [bd EXCEPT !.commonOrder = <<>>] ELSE bd

updateCommonOrder(bd, tip, blueSet, isRollBack, exclude, curLastCommonBS, startIndex) ==
    IF tip = bd.genesis THEN [bd EXCEPT !.commonOrder = <<>>]
    ELSE LET bd1 == IF HasOnly(bd.parents[tip], bd.genesis) /\ Len(bd.commonOrder) = 0
                    THEN [bd EXCEPT !.commonOrder = <<bd.genesis>>]
                    ELSE bd
         IN IF ~isRollBack
            THEN IF blueSet = NilSet THEN bd1
                 ELSE LET lpsb == sortBlockSet(bd1, bd1.lastCommonBlocks, blueSet)
                          to == GetTempOrderFrom(bd1, lpsb, blueSet, exclude)
                          co == updateCommonOrderWrite(bd1.commonOrder, to,
                                                       bd1.lastCommonBlocks, startIndex, 0)
                          n == GetCommonOrderNum([commonOrder |-> co])
                          bad == n > 0 /\ co[n] \notin curLastCommonBS
                      IN [bd1 EXCEPT !.commonOrder = co,
                                     !.errorLog = IF bad THEN @ \cup {"order errer:end block is not new common block"}
                                                  ELSE @]
            ELSE LET poLen == Len(bd1.commonOrder)
                     co == updateCommonOrderNull(bd1.commonOrder, curLastCommonBS, poLen)
                     kept == {i \in 1..poLen : bd1.commonOrder[i] \in curLastCommonBS}
                     rNum == IF kept = {} THEN poLen
                             ELSE poLen - (CHOOSE i \in kept : \A j \in kept : j <= i)
                 IN [bd1 EXCEPT !.commonOrder = co,
                                !.errorLog = IF (poLen - rNum) # startIndex
                                             THEN @ \cup {"order errer:number"} ELSE @]

\* ------------------------------------------------------ calLastCommonBlocks
\* One call of recPastBlockSet on the two maps a = [tipsAncestors, tipsGenealogy].
recPastBlockSet(bd, a) ==
    LET tks == SelectSeq(GetMap(bd, DOMAIN a.tipsAncestors),
                         LAMBDA tk : ~HasOnly(a.tipsAncestors[tk], bd.genesis))
        RECURSIVE Cands(_)
        Cands(ts) == IF ts = <<>> THEN <<>>
                     ELSE [i \in 1..Len(GetMap(bd, a.tipsAncestors[Head(ts)])) |->
                              <<Head(ts), GetMap(bd, a.tipsAncestors[Head(ts)])[i]>>]
                          \o Cands(Tail(ts))
        cands == Cands(tks)
        \* the first candidate, in iteration order, of maximum past number
        best == CHOOSE i \in 1..Len(cands) :
                    /\ \A j \in 1..Len(cands) :
                           bd.pastSetNum[cands[j][2]] <= bd.pastSetNum[cands[i][2]]
                    /\ \A j \in 1..(i - 1) :
                           bd.pastSetNum[cands[j][2]] < bd.pastSetNum[cands[i][2]]
    IN IF cands = <<>> THEN a
       ELSE LET tipsHash == cands[best][1]
                maxPastHash == cands[best][2]
                ps == bd.parents[maxPastHash]
                new == ps \ a.tipsGenealogy[tipsHash]
            IN IF ps = {} THEN a
               ELSE [tipsAncestors |-> [a.tipsAncestors EXCEPT
                                           ![tipsHash] = (@ \ {maxPastHash}) \cup new],
                     tipsGenealogy |-> [a.tipsGenealogy EXCEPT ![tipsHash] = @ \cup new]]

\* The for loop of calLastCommonBlocks (l.593-608); fuel bounds its iterations.
RECURSIVE calLastCommonBlocksLoop(_, _, _, _)
calLastCommonBlocksLoop(bd, tip, a, fuel) ==
    LET hasDifferent == \E k \in DOMAIN a.tipsAncestors :
                            k # tip /\ a.tipsAncestors[tip] # a.tipsAncestors[k]
    IN IF ~hasDifferent THEN [result |-> a.tipsAncestors[tip], done |-> TRUE]
       ELSE IF fuel = 0 THEN [result |-> NilSet, done |-> FALSE]
       ELSE calLastCommonBlocksLoop(bd, tip, recPastBlockSet(bd, a), fuel - 1)

calLastCommonBlocks(bd, tip) ==
    IF bd.tips = NilSet \/ Cardinality(bd.tips) <= 1
    THEN [result |-> NilSet, done |-> TRUE]
    ELSE calLastCommonBlocksLoop(bd, tip,
             [tipsAncestors |-> [v \in bd.tips |-> {v}],
              tipsGenealogy |-> [v \in bd.tips |-> {v}]], WalkFuel)

\* --------------------------------------------------------------- blue sets
\* The entries calLastCommonBlocksPBS puts into an empty pastBlueSet map.
calLastCommonBlocksPBS(bd) ==
    LET lastPFuture == GetFutureSetOf(bd, bd.lastCommonBlocks)
        lpbAnti == [k \in bd.lastCommonBlocks |-> GetAnticone(bd, k, lastPFuture)]
        lastTempBlueSet == UNION {lpbAnti[k] : k \in bd.lastCommonBlocks}
                               \cap bd.commonBlueSet
    IN IF Cardinality(bd.lastCommonBlocks) = 1
       THEN [k \in bd.lastCommonBlocks |-> {}]
       ELSE [k \in bd.lastCommonBlocks |-> (lastTempBlueSet \ lpbAnti[k]) \ {k}]

\* GetMaxLenBlockSet: the key of the largest set, the smallest hash on a tie.
GetMaxLenBlockSet(bsm) ==
    IF DOMAIN bsm = {} THEN Nil
    ELSE CHOOSE k \in DOMAIN bsm :
             \A o \in DOMAIN bsm \ {k} :
                 \/ Cardinality(bsm[o]) < Cardinality(bsm[k])
                 \/ (Cardinality(bsm[o]) = Cardinality(bsm[k]) /\ k < o)

\* The loop of calculateBlueSet over the anticone of the selected parent (l.682-696).
RECURSIVE calculateBlueSetLoop(_, _, _, _, _)
calculateBlueSetLoop(bd, result, ks, exclude, useCommon) ==
    IF ks = <<>> THEN result
    ELSE LET k == Head(ks)
             bAnBS == GetAnticone(bd, k, exclude)
             inBS == (result \cap bAnBS)
                        \cup (IF useCommon THEN bd.commonBlueSet \cap bAnBS ELSE {})
         IN calculateBlueSetLoop(bd,
                IF bAnBS # {} /\ Cardinality(inBS) <= bd.anticoneSize
                THEN result \cup {k} ELSE result,
                Tail(ks), exclude, useCommon)

calculateBlueSet(bd, ps, exclude, pastBlueSet, useCommon) ==
    LET parentsPBSS == [k \in ps |-> IF k \in DOMAIN pastBlueSet THEN pastBlueSet[k] ELSE {}]
        maxBluePBSHash == GetMaxLenBlockSet(parentsPBSS)
    IN IF maxBluePBSHash = Nil THEN NilSet
       ELSE LET result == parentsPBSS[maxBluePBSHash] \cup {maxBluePBSHash}
            IN IF Cardinality(ps) = 1 THEN result
               ELSE calculateBlueSetLoop(bd, result,
                        GetMap(bd, GetAnticone(bd, maxBluePBSHash, exclude)),
                        exclude, useCommon)

RECURSIVE calculatePastBlueSet(_, _, _, _)
RECURSIVE calculatePastBlueSetLoop(_, _, _, _)
calculatePastBlueSetLoop(bd, ks, pastBlueSet, useCommon) ==
    IF ks = <<>> THEN pastBlueSet
    ELSE calculatePastBlueSetLoop(bd, Tail(ks),
             calculatePastBlueSet(bd, Head(ks), pastBlueSet, useCommon), useCommon)

calculatePastBlueSet(bd, h, pastBlueSet, useCommon) ==
    IF h \in DOMAIN pastBlueSet THEN pastBlueSet
    ELSE IF h = bd.genesis THEN (h :> {}) @@ pastBlueSet
    ELSE IF bd.parents[h] = {} THEN pastBlueSet
    ELSE IF HasOnly(bd.parents[h], bd.genesis) THEN (h :> {bd.genesis}) @@ pastBlueSet
    ELSE LET pbs == calculatePastBlueSetLoop(bd, GetMap(bd, bd.parents[h]),
                                             pastBlueSet, useCommon)
             anticone == GetAnticone(bd, h, NilSet)
         IN (h :> calculateBlueSet(bd, bd.parents[h], anticone, pbs, useCommon)) @@ pbs

\* ------------------------------------------------------ updateCommonBlueSet
updateCommonBlueSet(bd, tip) ==
    IF tip = bd.genesis
    THEN updateCommonOrder([bd EXCEPT !.commonBlueSet = {}, !.lastCommonBlocks = {}],
                           tip, NilSet, FALSE, NilSet, NilSet, 0)
    ELSE IF HasOnly(bd.parents[tip], bd.genesis)
    THEN updateCommonOrder([bd EXCEPT !.commonBlueSet = {bd.genesis},
                                      !.lastCommonBlocks = {bd.genesis}],
                           tip, NilSet, FALSE, NilSet, NilSet, 0)
    ELSE IF Cardinality(bd.tips) <= 1 THEN bd
    ELSE Bind(calLastCommonBlocks(bd, tip), LAMBDA cl :
         IF ~cl.done THEN [bd EXCEPT !.hung = TRUE]
         ELSE IF cl.result = bd.lastCommonBlocks THEN bd
         ELSE Bind(cl.result, LAMBDA curLastCommonBS :
              Bind(GetFutureSetOf(bd, curLastCommonBS), LAMBDA curLPFuture :
              Bind(GetFutureSetOf(bd, bd.lastCommonBlocks), LAMBDA lastPFuture :
              IF Contain(lastPFuture, curLPFuture)
              THEN Bind(calculateBlueSet(bd, curLastCommonBS, curLPFuture,
                            calculatePastBlueSetLoop(bd, GetMap(bd, curLastCommonBS),
                                calLastCommonBlocksPBS(bd), FALSE),
                            FALSE),
                        LAMBDA cbs :
                   [updateCommonOrder(bd, tip, cbs, FALSE,
                        curLPFuture \cup UNION {bd.parents[k] : k \in bd.lastCommonBlocks},
                        curLastCommonBS, bd.totalBlocks - Cardinality(lastPFuture))
                      EXCEPT !.commonBlueSet = @ \cup cbs,
                             !.lastCommonBlocks = curLastCommonBS])
              ELSE IF Contain(curLPFuture, lastPFuture)
              THEN [updateCommonOrder(bd, tip, NilSet, TRUE, NilSet, curLastCommonBS,
                                      bd.totalBlocks - Cardinality(curLPFuture))
                      EXCEPT !.commonBlueSet = @ \ curLPFuture,
                             !.lastCommonBlocks = curLastCommonBS]
              ELSE [bd EXCEPT !.errorLog = @ \cup {"error:common set"}]))))

GetTempBlueSet(bd) ==
    IF HasOnly(bd.tips, bd.genesis) THEN {bd.genesis}
    ELSE LET pastBlueSet == calculatePastBlueSetLoop(bd, GetMap(bd, bd.tips),
                                calLastCommonBlocksPBS(bd), FALSE)
         IN calculateBlueSet(bd, bd.tips, NilSet, pastBlueSet, FALSE)

\* getTempBS caches the set in bd.tempBlueSet; the result is the DAG with the
\* cache filled.
getTempBS(bd) ==
    IF bd.tempBlueSet = NilSet THEN [bd EXCEPT !.tempBlueSet = GetTempBlueSet(bd)]
    ELSE bd

\* ------------------------------------------------------------ updateHourglass
\* A recCalHourglass that leaves the ancestors as they are.
recCalHourglassNoStep(bd, a) == a

\* One call of recCalHourglass on a = [genealogy, ancestors].
recCalHourglass(bd, a) ==
    LET ks == GetMap(bd, a.ancestors)
        \* the first block, in iteration order, of maximum past number
        best == CHOOSE i \in 1..Len(ks) :
                    /\ \A j \in 1..Len(ks) : bd.pastSetNum[ks[j]] <= bd.pastSetNum[ks[i]]
                    /\ \A j \in 1..(i - 1) : bd.pastSetNum[ks[j]] < bd.pastSetNum[ks[i]]
    IN IF ks = <<>> THEN a
       ELSE LET maxPastHash == ks[best]
                ps == bd.parents[maxPastHash]
                new == ps \ a.genealogy
            IN IF ps = {} THEN a
               ELSE [genealogy |-> a.genealogy \cup new,
                     ancestors |-> (a.ancestors \ {maxPastHash}) \cup new]

\* The for loop of updateHourglass (l.898-934); fuel bounds its iterations.
RECURSIVE updateHourglassLoop(_, _, _)
updateHourglassLoop(bd, a, fuel) ==
    LET r == recCalHourglass(bd, a)
        tempBs == bd.tempBlueSet
        ancestors == (tempBs \cap r.ancestors) \cup (bd.commonBlueSet \cap r.ancestors)
        sb == sortBlockSet(bd, ancestors, NilSet)
        hits == {i \in 1..Len(sb) :
                    LET anti == GetAnticone(bd, sb[i], NilSet)
                    IN anti = {} \/ (tempBs \cap anti) \cup (bd.commonBlueSet \cap anti) = {}}
    IN IF ancestors = {} \/ HasOnly(ancestors, bd.genesis)
       THEN [bd EXCEPT !.hourglassBlocks = {bd.genesis}]
       ELSE IF hits # {}
       THEN [bd EXCEPT !.hourglassBlocks =
                (@ \ r.genealogy) \cup {sb[CHOOSE i \in hits : \A j \in hits : i <= j]}]
       ELSE IF fuel = 0 THEN [bd EXCEPT !.hung = TRUE]
       ELSE updateHourglassLoop(bd, [genealogy |-> r.genealogy, ancestors |-> ancestors],
                                fuel - 1)

updateHourglass(bd) ==
    IF bd.tips = NilSet \/ bd.tips = {} THEN bd
    ELSE LET bd1 == IF bd.hourglassBlocks = NilSet THEN [bd EXCEPT !.hourglassBlocks = {}]
                    ELSE bd
             tempNum == Cardinality({k \in bd.tips : HasOnly(bd.parents[k], bd.genesis)})
         IN IF HasOnly(bd.tips, bd.genesis)
            THEN [bd1 EXCEPT !.hourglassBlocks = @ \cup {bd.genesis}]
            ELSE IF tempNum = Cardinality(bd.tips) THEN bd1
            ELSE updateHourglassLoop(getTempBS(bd1),
                     [genealogy |-> bd.tips, ancestors |-> bd.tips], WalkFuel)

\* --------------------------------------------------------------- updateOrder
updateOrder(bd, b) ==
    IF bd.totalBlocks = 1
    THEN [bd EXCEPT !.tempOrder = <<bd.genesis>>, !.height[b] = 0,
                    !.refNodes = <<bd.genesis>>]
    ELSE Bind(getTempBS(bd), LAMBDA bd1 :
         Bind(SelectSeq(GetTempOrderFrom(bd1,
                            sortBlockSet(bd1, bd1.lastCommonBlocks, NilSet),
                            bd1.tempBlueSet,
                            UNION {bd1.parents[k] : k \in bd1.lastCommonBlocks}),
                        LAMBDA x : x \notin bd1.lastCommonBlocks),
              LAMBDA newTempOrder :
         LET pNum == GetCommonOrderNum(bd1)
             tLen == Len(newTempOrder)
             pos(x) == CHOOSE i \in 1..tLen : newTempOrder[i] = x
             heights == [h \in Hashes |-> IF h \in Range(newTempOrder)
                                          THEN pNum + pos(h) - 1 ELSE bd1.height[h]]
             errs == (IF \E h \in Range(newTempOrder) : pNum + pos(h) - 1 = 0
                      THEN {"Order error:height"} ELSE {})
                     \cup (IF pNum + tLen # bd1.totalBlocks
                           THEN {"Order error:The number is a problem"} ELSE {})
         IN Bind([bd1 EXCEPT !.tempOrder = newTempOrder, !.height = heights,
                             !.errorLog = @ \cup errs],
                 LAMBDA bd2 :
            IF HasOnly(bd2.tips, b)
            THEN [bd2 EXCEPT !.height[b] = bd2.totalBlocks - 1, !.refNodes = <<b>>]
            ELSE IF tLen = 0
            THEN [bd2 EXCEPT !.errorLog = @ \cup {"panic:index out of range"}]
            ELSE IF newTempOrder[tLen] = b
            THEN [bd2 EXCEPT !.height[b] = bd2.totalBlocks - 1, !.refNodes = <<b>>]
            ELSE [bd2 EXCEPT !.refNodes =
                     IF b \in Range(newTempOrder)
                     THEN SubSeq(newTempOrder, pos(b), tLen) ELSE newTempOrder])))

\* ------------------------------------------------------------------ AddBlock
\* AddBlock on the DAG bd, the Go maps iterating in order iter.
AddBlockOn(bd, b, ps, iter) ==
    Bind(updateCommonBlueSet(
             calculatePastBlockSetNum(
                 updateTips([AddNode(bd, b, ps) EXCEPT
                                !.totalBlocks = @ + 1, !.tempBlueSet = NilSet,
                                !.iter = iter, !.errorLog = {}, !.refNodes = <<>>],
                            b),
                 b),
             b),
         LAMBDA bd3 :
    Bind(IF bd3.hung THEN bd3 ELSE updateHourglass(bd3), LAMBDA bd4 :
    IF bd4.hung THEN bd4 ELSE updateOrder(bd4, b)))

\* Transitive parent closure of the blocks of s.
RECURSIVE PastOf(_, _)
PastOf(par, s) ==
    LET ps == UNION {par[x] : x \in s}
    IN IF ps = {} THEN {} ELSE ps \cup PastOf(par, ps)

\* The parent sets upstream validation lets through: non-empty sets of
\* indexed blocks none of which is an ancestor of another.
ValidParents(bd) ==
    {ps \in SUBSET bd.index : ps # {} /\ \A p \in ps : p \notin PastOf(bd.parents, ps)}

\* The hashes a new block may have: the smallest and the largest hash not in
\* the index.
NewHashes(bd) ==
    LET unused == Hashes \ bd.index
    IN {b \in unused : (\A o \in unused : b <= o) \/ (\A o \in unused : b >= o)}

AddBlock(b, ps) ==
    /\ ~hung
    /\ b \notin index
    /\ IF index = {} THEN b = GenesisHash /\ ps = {}
       ELSE b \in NewHashes(BlockDAG) /\ ps \in ValidParents(BlockDAG)
    /\ \E iter \in IterOrders(index \cup {b}) :
         \E r \in {AddBlockOn(BlockDAG, b, ps, iter)} :
            /\ index' = r.index
            /\ parents' = r.parents
            /\ children' = r.children
            /\ pastSetNum' = r.pastSetNum
            /\ height' = r.height
            /\ genesis' = r.genesis
            /\ totalBlocks' = r.totalBlocks
            /\ commonBlueSet' = r.commonBlueSet
            /\ tempBlueSet' = r.tempBlueSet
            /\ lastCommonBlocks' = r.lastCommonBlocks
            /\ commonOrder' = r.commonOrder
            /\ tempOrder' = r.tempOrder
            /\ tips' = r.tips
            /\ anticoneSize' = r.anticoneSize
            /\ hourglassBlocks' = r.hourglassBlocks
            /\ refNodes' = r.refNodes
            /\ errorLog' = r.errorLog
            /\ hung' = r.hung
    /\ UNCHANGED notDagVars

\* The BlockDAG after Init with anticone size k.
StartsAs(k) ==
    /\ index = NewBlockDAG(k).index
    /\ parents = NewBlockDAG(k).parents
    /\ children = NewBlockDAG(k).children
    /\ pastSetNum = NewBlockDAG(k).pastSetNum
    /\ height = NewBlockDAG(k).height
    /\ genesis = NewBlockDAG(k).genesis
    /\ totalBlocks = NewBlockDAG(k).totalBlocks
    /\ commonBlueSet = NewBlockDAG(k).commonBlueSet
    /\ tempBlueSet = NewBlockDAG(k).tempBlueSet
    /\ lastCommonBlocks = NewBlockDAG(k).lastCommonBlocks
    /\ commonOrder = NewBlockDAG(k).commonOrder
    /\ tempOrder = NewBlockDAG(k).tempOrder
    /\ tips = NewBlockDAG(k).tips
    /\ anticoneSize = NewBlockDAG(k).anticoneSize
    /\ hourglassBlocks = NewBlockDAG(k).hourglassBlocks
    /\ refNodes = NewBlockDAG(k).refNodes
    /\ errorLog = NewBlockDAG(k).errorLog
    /\ hung = NewBlockDAG(k).hung

DagInit == \E k \in 0..MaxAnticoneSize : StartsAs(k)

DagNext == \E b \in Hashes : \E ps \in SUBSET Hashes : AddBlock(b, ps)

\* ------------------------------------------------------------- queries
\* commonOrder followed by tempOrder, as GetBlockOrder scans them from the end.
ScannedOrder(bd) == bd.commonOrder \o bd.tempOrder

GetBlockOrder(bd, h) ==
    IF bd.tempOrder = NilSeq THEN -1
    ELSE LET s == ScannedOrder(bd)
             at == {i \in 1..Len(s) : s[i] # Nil /\ s[i] = h}
         IN IF at = {} THEN -1
            ELSE LET last == CHOOSE i \in at : \A j \in at : j <= i
                 IN bd.totalBlocks
                        - Cardinality({j \in last..Len(s) : s[j] # Nil})

GetBlockByOrder(bd, order) ==
    IF bd.tempOrder = NilSeq \/ order < 0 THEN Nil
    ELSE IF order < GetCommonOrderNum(bd) THEN bd.commonOrder[order + 1]
    ELSE IF order - GetCommonOrderNum(bd) < Len(bd.tempOrder)
    THEN bd.tempOrder[order - GetCommonOrderNum(bd) + 1]
    ELSE Nil

GetLastBlock(bd) ==
    IF bd.tempOrder = NilSeq THEN Nil
    ELSE IF Len(bd.tempOrder) > 0 THEN bd.tempOrder[Len(bd.tempOrder)]
    ELSE IF GetCommonOrderNum(bd) > 0
    THEN bd.commonOrder[GetCommonOrderNum(bd)]
    ELSE Nil

GetTips(bd) == bd.tips

GetBlockCount(bd) == bd.totalBlocks

\* ---------------------------------------------------------- Rebroadcast
Clients == 1..MaxClients

InvHashes == 1..MaxInvs

\* What an inventory item carries: a *types.TxDesc or something else.
InvData == {"TxDesc", "Block"}

\* A goroutine that is in no call of the Rebroadcast.
Idle == [pc |-> "idle", msg |-> Nil, ret |-> "none"]

\* NewRebroadcast: the channels made, the counters zero, no handler running;
\* the mempool has every transaction.
NewRebroadcast ==
    /\ rbStarted = 0
    /\ rbShutdown = 0
    /\ rbQuit = 0
    /\ rbWg = 0
    /\ rbHandler = [pc |-> "off", pendingInvs |-> <<>>, todo |-> {}, msg |-> Nil]
    /\ rbClients = [c \in Clients |-> Idle]
    /\ rbMempool = InvHashes
    /\ rbRelayed = {}
    /\ rbPanic = FALSE

\* The map m without key h.
Delete(m, h) == [k \in DOMAIN m \ {h} |-> m[k]]

\* The map m with m[h] = v.
Put(m, h, v) == [k \in DOMAIN m \cup {h} |-> IF k = h THEN v ELSE m[k]]

\* pendingInvs after the handler received msg (l.70-76).
Modified(pendingInvs, msg) ==
    IF msg.type = "broadcastInventoryAdd" THEN Put(pendingInvs, msg.hash, msg.data)
    ELSE Delete(pendingInvs, msg.hash)

\* Start, l.36: atomic.AddInt32(&r.started, 1) != 1 returns.
StartEnter(c) ==
    /\ ~rbPanic
    /\ rbClients[c].pc = "idle"
    /\ rbStarted < MaxStarts
    /\ rbStarted' = rbStarted + 1
    /\ rbClients' = [rbClients EXCEPT ![c] =
                        IF rbStarted + 1 # 1 THEN [Idle EXCEPT !.ret = "return"]
                        ELSE [Idle EXCEPT !.pc = "go handler"]]
    /\ UNCHANGED <<rbShutdown, rbQuit, rbWg, rbHandler, rbMempool, rbRelayed,
                   rbPanic, notRebVars>>

\* Start, l.42-43: r.wg.Add(1); go r.handler(). The handler makes its timer
\* and pendingInvs (l.63-64) and reaches the select.
StartHandler(c) ==
    /\ ~rbPanic
    /\ rbClients[c].pc = "go handler"
    /\ rbWg' = rbWg + 1
    /\ rbHandler' = [pc |-> "select", pendingInvs |-> <<>>, todo |-> {}, msg |-> Nil]
    /\ rbClients' = [rbClients EXCEPT ![c] = [Idle EXCEPT !.ret = "return"]]
    /\ UNCHANGED <<rbStarted, rbShutdown, rbQuit, rbMempool, rbRelayed, rbPanic,
                   notRebVars>>

\* Stop, l.48-51: a call that is not the first returns nil.
StopEnterOn(c, first) ==
    /\ ~rbPanic
    /\ rbClients[c].pc = "idle"
    /\ rbShutdown < MaxStops
    /\ rbShutdown' = rbShutdown + 1
    /\ rbClients' = [rbClients EXCEPT ![c] =
                        IF ~first THEN [Idle EXCEPT !.ret = "nil"]
                        ELSE [Idle EXCEPT !.pc = "close"]]
    /\ UNCHANGED <<rbStarted, rbQuit, rbWg, rbHandler, rbMempool, rbRelayed,
                   rbPanic, notRebVars>>

\* A Stop that closes the channel whatever the counter says.
StopFirstAlways(n) == TRUE

\* Stop, l.48: the call is the first when atomic.AddInt32(&r.shutdown, 1)
\* returns 1.
StopFirst(n) == n = 1

StopEnter(c) == StopEnterOn(c, StopFirst(rbShutdown + 1))

\* Stop, l.55: close(r.quit); the close of a closed channel panics.
StopClose(c) ==
    /\ ~rbPanic
    /\ rbClients[c].pc = "close"
    /\ rbQuit' = rbQuit + 1
    /\ rbPanic' = (rbQuit # 0)
    /\ rbClients' = [rbClients EXCEPT ![c].pc = "wait"]
    /\ UNCHANGED <<rbStarted, rbShutdown, rbWg, rbHandler, rbMempool, rbRelayed,
                   notRebVars>>

\* Stop, l.57-58: r.wg.Wait() returns when the counter is zero; return nil.
StopWait(c) ==
    /\ ~rbPanic
    /\ rbClients[c].pc = "wait"
    /\ rbWg = 0
    /\ rbClients' = [rbClients EXCEPT ![c] = [Idle EXCEPT !.ret = "nil"]]
    /\ UNCHANGED <<rbStarted, rbShutdown, rbQuit, rbWg, rbHandler, rbMempool,
                   rbRelayed, rbPanic, notRebVars>>

\* AddInventory and RemoveInventory called by goroutine c (l.111-127), the
\* test of l.113-115 and l.122-124: return when shutting down, else go on
\* to the send of msg.
Modify(c, msg) ==
    /\ ~rbPanic
    /\ rbClients[c].pc = "idle"
    /\ rbClients' = [rbClients EXCEPT ![c] =
                        IF rbShutdown # 0 THEN [Idle EXCEPT !.ret = "return"]
                        ELSE [Idle EXCEPT !.pc = "checked", !.msg = msg]]
    /\ UNCHANGED <<rbStarted, rbShutdown, rbQuit, rbWg, rbHandler, rbMempool,
                   rbRelayed, rbPanic, notRebVars>>

\* AddInventory and RemoveInventory, l.117 and l.126: goroutine c reaches
\* the send on the unbuffered modifyRebroadcastInv and waits there for a
\* receiver.
ModifySend(c) ==
    /\ ~rbPanic
    /\ rbClients[c].pc = "checked"
    /\ rbClients' = [rbClients EXCEPT ![c].pc = "send"]
    /\ UNCHANGED <<rbStarted, rbShutdown, rbQuit, rbWg, rbHandler, rbMempool,
                   rbRelayed, rbPanic, notRebVars>>

AddInventory(c) ==
    \E h \in InvHashes : \E data \in InvData :
        Modify(c, [type |-> "broadcastInventoryAdd", hash |-> h, data |-> data])

RemoveInventory(c) ==
    \E h \in InvHashes :
        Modify(c, [type |-> "broadcastInventoryDel", hash |-> h, data |-> Nil])

\* handler, l.69-76: the select receives what goroutine c sends.
HandlerReceive(c) ==
    /\ ~rbPanic
    /\ rbHandler.pc = "select"
    /\ rbClients[c].pc = "send"
    /\ rbHandler' = [rbHandler EXCEPT
                        !.pendingInvs = Modified(@, rbClients[c].msg)]
    /\ rbClients' = [rbClients EXCEPT ![c] = [Idle EXCEPT !.ret = "return"]]
    /\ UNCHANGED <<rbStarted, rbShutdown, rbQuit, rbWg, rbMempool, rbRelayed,
                   rbPanic, notRebVars>>

\* handler, l.77-78: the timer fires and the range over pendingInvs begins.
HandlerTimer ==
    /\ ~rbPanic
    /\ rbHandler.pc = "select"
    /\ rbHandler' = [rbHandler EXCEPT !.pc = "range",
                                      !.todo = DOMAIN rbHandler.pendingInvs]
    /\ rbRelayed' = {}
    /\ UNCHANGED <<rbStarted, rbShutdown, rbQuit, rbWg, rbClients, rbMempool,
                   rbPanic, notRebVars>>

\* handler, l.78-88: one item of the range, in any order. A transaction the
\* mempool does not have goes to r.RemoveInventory(&dh), which returns when
\* shutting down and else sends on modifyRebroadcastInv (l.120-127); every
\* other item is relayed.
HandlerRange ==
    /\ ~rbPanic
    /\ rbHandler.pc = "range"
    /\ \E h \in rbHandler.todo :
         IF rbHandler.pendingInvs[h] = "TxDesc" /\ h \notin rbMempool
         THEN /\ rbHandler' =
                   IF rbShutdown # 0
                   THEN [rbHandler EXCEPT !.todo = @ \ {h}]
                   ELSE [rbHandler EXCEPT
                            !.pc = "send", !.todo = @ \ {h},
                            !.msg = [type |-> "broadcastInventoryDel",
                                     hash |-> h, data |-> Nil]]
              /\ UNCHANGED rbRelayed
         ELSE /\ rbHandler' = [rbHandler EXCEPT !.todo = @ \ {h}]
              /\ rbRelayed' = rbRelayed \cup {h}
    /\ UNCHANGED <<rbStarted, rbShutdown, rbQuit, rbWg, rbClients, rbMempool,
                   rbPanic, notRebVars>>

\* handler, l.90-92: the range is over, the timer is reset.
HandlerReset ==
    /\ ~rbPanic
    /\ rbHandler.pc = "range"
    /\ rbHandler.todo = {}
    /\ rbHandler' = [rbHandler EXCEPT !.pc = "select"]
    /\ UNCHANGED <<rbStarted, rbShutdown, rbQuit, rbWg, rbClients, rbMempool,
                   rbRelayed, rbPanic, notRebVars>>

\* handler, l.94-98: quit is closed; break out, stop the timer.
HandlerQuit ==
    /\ ~rbPanic
    /\ rbHandler.pc = "select"
    /\ rbQuit # 0
    /\ rbHandler' = [rbHandler EXCEPT !.pc = "cleanup"]
    /\ UNCHANGED <<rbStarted, rbShutdown, rbQuit, rbWg, rbClients, rbMempool,
                   rbRelayed, rbPanic, notRebVars>>

\* handler, l.101-103: the cleanup loop drains what goroutine c sends.
HandlerDrain(c) ==
    /\ ~rbPanic
    /\ rbHandler.pc = "cleanup"
    /\ rbClients[c].pc = "send"
    /\ rbClients' = [rbClients EXCEPT ![c] = [Idle EXCEPT !.ret = "return"]]
    /\ UNCHANGED <<rbStarted, rbShutdown, rbQuit, rbWg, rbHandler, rbMempool,
                   rbRelayed, rbPanic, notRebVars>>

\* handler, l.104-108: no goroutine is sending; break cleanup, r.wg.Done().
HandlerDone ==
    /\ ~rbPanic
    /\ rbHandler.pc = "cleanup"
    /\ \A c \in Clients : rbClients[c].pc # "send"
    /\ rbHandler' = [rbHandler EXCEPT !.pc = "done"]
    /\ rbWg' = rbWg - 1
    /\ UNCHANGED <<rbStarted, rbShutdown, rbQuit, rbClients, rbMempool, rbRelayed,
                   rbPanic, notRebVars>>

\* The mempool drops a transaction.
MempoolDrop ==
    /\ ~rbPanic
    /\ \E h \in rbMempool : rbMempool' = rbMempool \ {h}
    /\ UNCHANGED <<rbStarted, rbShutdown, rbQuit, rbWg, rbHandler, rbClients,
                   rbRelayed, rbPanic, notRebVars>>

\* The steps of the handler goroutine.
HandlerStep ==
    \/ \E c \in Clients : HandlerReceive(c)
    \/ HandlerTimer
    \/ HandlerRange
    \/ HandlerReset
    \/ HandlerQuit
    \/ \E c \in Clients : HandlerDrain(c)
    \/ HandlerDone

RebNext ==
    \/ \E c \in Clients : StartEnter(c)
    \/ \E c \in Clients : StartHandler(c)
    \/ \E c \in Clients : StopEnter(c)
    \/ \E c \in Clients : StopClose(c)
    \/ \E c \in Clients : StopWait(c)
    \/ \E c \in Clients : AddInventory(c)
    \/ \E c \in Clients : RemoveInventory(c)
    \/ \E c \in Clients : ModifySend(c)
    \/ HandlerStep
    \/ MempoolDrop

\* ------------------------------------------------------------------ Sync
\* The peers s.peers.Get finds.
Peers == 1..MaxPeers

\* The remote peers of a stream: the known ones and one s.peers.Get does
\* not find.
Remotes == 1..(MaxPeers + 1)

GraphStates == 1..MaxGraphStates

\* No call into the Sync has been made.
NoCall == [op |-> "none", remote |-> Nil, msg |-> "none", ret |-> "none",
           resp |-> "none"]

\* The Sync with its peers: no graph state recorded, no bad response.
NewSync ==
    /\ syPeers = [pe \in Peers |-> [graphState |-> Nil, badResponses |-> 0]]
    /\ syUpdates = [pe \in Peers |-> 0]
    /\ syCall = NoCall

\* peers.Peer.UpdateGraphState
UpdateGraphState(peers, pe, gs) == [peers EXCEPT ![pe].graphState = gs]

\* peers.Status.IncrementBadResponses, capped at MaxBad.
IncrementBadResponses(peers, pe) ==
    IF pe \in DOMAIN peers /\ peers[pe].badResponses < MaxBad
    THEN [peers EXCEPT ![pe].badResponses = @ + 1]
    ELSE peers

\* go s.peerSync.PeerUpdate(pe, false), capped at MaxBad.
PeerUpdate(updates, pe) ==
    IF updates[pe] < MaxBad THEN [updates EXCEPT ![pe] = @ + 1] ELSE updates

\* The messages a stream hands to graphStateHandler: a *pb.GraphState or a
\* message of another type.
Messages ==
    {[type |-> "GraphState", gs |-> gs] : gs \in GraphStates}
        \cup {[type |-> "Other", gs |-> Nil]}

\* graphStateHandler on a message from remote; encoded says whether
\* EncodeResponseMsg succeeds. The deferred function writes an error
\* response unless respCode is ResponseCodeSuccess; it calls err.Error(),
\* and err is nil when EncodeResponseMsg failed.
graphStateHandler(remote, msg, encoded) ==
    IF remote \notin Peers
    THEN /\ syCall' = [op |-> "graphStateHandler", remote |-> remote,
                       msg |-> msg.type, ret |-> "ErrPeerUnknown",
                       resp |-> "none"]
         /\ UNCHANGED <<syPeers, syUpdates>>
    ELSE IF msg.type # "GraphState"
    THEN /\ syCall' = [op |-> "graphStateHandler", remote |-> remote,
                       msg |-> msg.type, ret |-> "ErrMessage",
                       resp |-> "ResponseCodeServerError"]
         /\ UNCHANGED <<syPeers, syUpdates>>
    ELSE /\ syPeers' = UpdateGraphState(syPeers, remote, msg.gs)
         /\ syUpdates' = PeerUpdate(syUpdates, remote)
         /\ syCall' = [op |-> "graphStateHandler", remote |-> remote,
                       msg |-> msg.type,
                       ret |-> IF encoded THEN "nil" ELSE "EncodeResponseMsg error",
                       resp |-> IF encoded THEN "ResponseCodeSuccess"
                                ELSE "panic: nil pointer dereference"]

GraphStateHandler ==
    /\ syCall.resp # "panic: nil pointer dereference"
    /\ \E remote \in Remotes : \E msg \in Messages : \E encoded \in BOOLEAN :
         graphStateHandler(remote, msg, encoded)
    /\ UNCHANGED notSyncVars

\* What sendGraphStateRequest can come back with: an error of Send, of
\* ReadRspCode or of the decoding, a response code that is not success, or
\* the peer's graph state.
Replies ==
    {[kind |-> k, gs |-> Nil] : k \in {"error", "bad code"}}
        \cup {[kind |-> "GraphState", gs |-> gs] : gs \in GraphStates}

\* processUpdateGraphState on an active peer, with sendGraphStateRequest:
\* a response code that is not success increments the peer's bad responses
\* (l.37-40); a graph state is recorded and a peer update started (l.98-99).
processUpdateGraphState(pe, reply) ==
    /\ syPeers' = IF reply.kind = "bad code" THEN IncrementBadResponses(syPeers, pe)
                  ELSE IF reply.kind = "GraphState"
                  THEN UpdateGraphState(syPeers, pe, reply.gs)
                  ELSE syPeers
    /\ syUpdates' = IF reply.kind = "GraphState" THEN PeerUpdate(syUpdates, pe)
                    ELSE syUpdates
    /\ syCall' = [op |-> "processUpdateGraphState", remote |-> pe,
                  msg |-> reply.kind,
                  ret |-> IF reply.kind = "GraphState" THEN "nil" ELSE "error",
                  resp |-> "none"]

ProcessUpdateGraphState ==
    /\ syCall.resp # "panic: nil pointer dereference"
    /\ \E pe \in Peers : \E reply \in Replies : processUpdateGraphState(pe, reply)
    /\ UNCHANGED notSyncVars

SyncNext ==
    \/ GraphStateHandler
    \/ ProcessUpdateGraphState

\* ------------------------------------------- AddBlock, statement by statement
\* No goroutine is in AddBlock.
NoAdd == [pc |-> "idle", b |-> Nil, ps |-> {}, iter |-> <<>>]

\* No query has been made.
NoQuery == [op |-> "none", arg |-> Nil, result |-> Nil, pc |-> "idle"]

\* The BlockDAG as the goroutine in AddBlock finds it.
AdderDAG == [BlockDAG EXCEPT !.iter = adder.iter, !.errorLog = errorLog,
                             !.refNodes = refNodes, !.hung = hung]

\* The fields of the BlockDAG become those of r.
Becomes(r) ==
    /\ index' = r.index
    /\ parents' = r.parents
    /\ children' = r.children
    /\ pastSetNum' = r.pastSetNum
    /\ height' = r.height
    /\ genesis' = r.genesis
    /\ totalBlocks' = r.totalBlocks
    /\ commonBlueSet' = r.commonBlueSet
    /\ tempBlueSet' = r.tempBlueSet
    /\ lastCommonBlocks' = r.lastCommonBlocks
    /\ commonOrder' = r.commonOrder
    /\ tempOrder' = r.tempOrder
    /\ tips' = r.tips
    /\ anticoneSize' = r.anticoneSize
    /\ hourglassBlocks' = r.hourglassBlocks
    /\ refNodes' = r.refNodes
    /\ errorLog' = r.errorLog
    /\ hung' = r.hung

\* The goroutine in AddBlock moves from position from to position to, or
\* stays in a loop that does not exit.
Moves(from, to, r) ==
    /\ adder.pc = from
    /\ Becomes(r)
    /\ adder' = [adder EXCEPT !.pc = IF r.hung THEN "hung" ELSE to]
    /\ UNCHANGED <<observed, notStepVars>>

\* l.139: bd.mtx.Lock()
AddBlockLock ==
    /\ adder.pc = "idle"
    /\ ~mtx
    /\ Cardinality(index) < StepBlocks
    /\ \E b \in Hashes : \E ps \in SUBSET Hashes :
         /\ IF index = {} THEN b = GenesisHash /\ ps = {}
            ELSE b \in NewHashes(BlockDAG) /\ ps \in ValidParents(BlockDAG)
         /\ \E iter \in IterOrders(index \cup {b}) :
              adder' = [pc |-> "locked", b |-> b, ps |-> ps, iter |-> iter]
    /\ mtx' = TRUE
    /\ UNCHANGED <<dagVars, observed, notStepVars>>

\* l.142: bd.bc.index.AddNode(b)
AddBlockAddNode ==
    /\ Moves("locked", "indexed",
             [AddNode(AdderDAG, adder.b, adder.ps) EXCEPT
                 !.errorLog = {}, !.refNodes = <<>>])
    /\ UNCHANGED mtx

\* l.143-144: bd.totalBlocks++; bd.tempBlueSet=nil
AddBlockCount ==
    /\ Moves("indexed", "counted",
             [AdderDAG EXCEPT !.totalBlocks = @ + 1, !.tempBlueSet = NilSet])
    /\ UNCHANGED mtx

\* l.153: bd.updateTips(b)
AddBlockTips ==
    /\ Moves("counted", "tipped", updateTips(AdderDAG, adder.b))
    /\ UNCHANGED mtx

\* l.154: bd.calculatePastBlockSetNum(b)
AddBlockPast ==
    /\ Moves("tipped", "counted past", calculatePastBlockSetNum(AdderDAG, adder.b))
    /\ UNCHANGED mtx

\* l.157: bd.updateCommonBlueSet(b.GetHash())
AddBlockBlue ==
    /\ Moves("counted past", "blue", updateCommonBlueSet(AdderDAG, adder.b))
    /\ UNCHANGED mtx

\* l.158: bd.updateHourglass()
AddBlockHourglass ==
    /\ Moves("blue", "hourglass", updateHourglass(AdderDAG))
    /\ UNCHANGED mtx

\* l.160 and l.140: return bd.updateOrder(b), then the deferred Unlock
AddBlockOrder ==
    /\ Moves("hourglass", "idle", updateOrder(AdderDAG, adder.b))
    /\ mtx' = hung'

\* The queries a reader goroutine can make.
Queries ==
    {[op |-> op, arg |-> Nil] : op \in {"GetTips", "GetBlockCount", "GetLastBlock"}}
        \cup {[op |-> "GetBlockOrder", arg |-> h] : h \in Hashes}
        \cup {[op |-> "GetBlockByOrder", arg |-> i] : i \in 0..StepBlocks}

\* What query q returns on the BlockDAG bd.
Answer(bd, q) ==
    CASE q.op = "GetTips" -> GetTips(bd)
      [] q.op = "GetBlockCount" -> GetBlockCount(bd)
      [] q.op = "GetLastBlock" -> GetLastBlock(bd)
      [] q.op = "GetBlockOrder" -> GetBlockOrder(bd, q.arg)
      [] q.op = "GetBlockByOrder" -> GetBlockByOrder(bd, q.arg)

\* A reader goroutine makes a query: none of the query functions takes
\* bd.mtx, so it runs wherever the goroutine in AddBlock is.
Query ==
    /\ observed.op = "none"
    /\ \E q \in Queries :
         observed' = [op |-> q.op, arg |-> q.arg, result |-> Answer(BlockDAG, q),
                      pc |-> adder.pc]
    /\ UNCHANGED <<dagVars, adder, mtx, notStepVars>>

StepNext ==
    \/ AddBlockLock
    \/ AddBlockAddNode
    \/ AddBlockCount
    \/ AddBlockTips
    \/ AddBlockPast
    \/ AddBlockBlue
    \/ AddBlockHourglass
    \/ AddBlockOrder
    \/ Query

\* ===================================================================
\* The UTXO viewpoint (core/blockchain/utxo.go)
\* ===================================================================
\* A transaction is [Hash, Version, Expire, TxIn, TxOut]: TxIn a sequence of
\* [Hash, OutIndex] previous outpoints, TxOut a sequence of [Amount, PkScript].
\* A block is [Hash, Order, Transactions].  Go's 0-based positions are kept:
\* the transaction at position i of a block is Transactions[i + 1].
TxIds == 1..MaxTxs

OutIndexes == 0..(MaxOuts - 1)

\* uint32(x) of a block order or a position: these stay below 2^31, where the
\* conversion keeps the value.
Uint32(x) == IF x >= 0 THEN x ELSE x + 2147483647 + 2147483647 + 2

\* A nil []byte script.
NilScript == 0

\* A map without keys.
EmptyMap == [i \in {} |-> 0]

\* A nil *UtxoEntry.
NilEntry ==
    [nil |-> TRUE, sparseOutputs |-> EmptyMap, txVersion |-> 0, order |-> 0,
     index |-> 0, isCoinBase |-> FALSE, hasExpiry |-> FALSE,
     txType |-> "TxTypeRegular", modified |-> FALSE]

\* types.Transaction.IsCoinBaseTx: a coinbase has no input to spend.
IsCoinBaseTx(tx) == tx.TxIn = <<>>

\* types.DetermineTxType
DetermineTxType(tx) == IF IsCoinBaseTx(tx) THEN "TxTypeCoinbase" ELSE "TxTypeRegular"

\* txscript.IsUnspendable: an output that pays nothing can never be spent.
IsUnspendable(amount, pkScript) == amount = 0

NewUtxoViewpoint == [entries |-> EmptyMap, bestHash |-> Nil]

newUtxoEntry(txVersion, order, blockIndex, isCoinBase, hasExpiry, tt) ==
    [nil |-> FALSE, sparseOutputs |-> EmptyMap, txVersion |-> txVersion,
     order |-> order, index |-> blockIndex, isCoinBase |-> isCoinBase,
     hasExpiry |-> hasExpiry, txType |-> tt, modified |-> FALSE]

\* view.entries[txHash]: the zero value (nil) when the key is absent.
Entry(view, txHash) ==
    IF txHash \in DOMAIN view.entries THEN view.entries[txHash] ELSE NilEntry

LookupEntry(view, txHash) == Entry(view, txHash)

\* view.entries[txHash] = entry
SetEntry(view, txHash, entry) ==
    [view EXCEPT !.entries = (txHash :> entry) @@ view.entries]

\* ---------------------------------------------------------- UtxoEntry
SpendOutput(entry, outputIndex) ==
    IF outputIndex \notin DOMAIN entry.sparseOutputs THEN entry
    ELSE IF entry.sparseOutputs[outputIndex].spent THEN entry
    ELSE [entry EXCEPT !.modified = TRUE, !.sparseOutputs[outputIndex].spent = TRUE]

IsFullySpent(entry) ==
    \A i \in DOMAIN entry.sparseOutputs : entry.sparseOutputs[i].spent

AmountByIndex(entry, outputIndex) ==
    IF outputIndex \in DOMAIN entry.sparseOutputs
    THEN entry.sparseOutputs[outputIndex].amount ELSE 0

ScriptVersionByIndex(entry, outputIndex) ==
    IF outputIndex \in DOMAIN entry.sparseOutputs
    THEN entry.sparseOutputs[outputIndex].scriptVersion ELSE 0

PkScriptByIndex(entry, outputIndex) ==
    IF outputIndex \in DOMAIN entry.sparseOutputs
    THEN entry.sparseOutputs[outputIndex].pkScript ELSE NilScript

\* ---------------------------------------------------------- AddTxOuts
AddTxOuts(view, theTx, blockOrder, blockIndex) ==
    LET old == LookupEntry(view, theTx.Hash)
        entry == IF old.nil
                 THEN newUtxoEntry(theTx.Version, Uint32(blockOrder), blockIndex,
                                   IsCoinBaseTx(theTx), theTx.Expire # 0,
                                   DetermineTxType(theTx))
                 ELSE [old EXCEPT !.order = Uint32(blockOrder), !.index = blockIndex]
        added == {i \in 0..(Len(theTx.TxOut) - 1) :
                      ~IsUnspendable(theTx.TxOut[i + 1].Amount, theTx.TxOut[i + 1].PkScript)}
        outputs == [i \in DOMAIN entry.sparseOutputs \cup added |->
                       IF i \notin added THEN entry.sparseOutputs[i]
                       ELSE IF i \in DOMAIN entry.sparseOutputs
                       THEN [entry.sparseOutputs[i] EXCEPT
                                !.spent = FALSE,
                                !.amount = theTx.TxOut[i + 1].Amount,
                                !.pkScript = theTx.TxOut[i + 1].PkScript]
                       ELSE [scriptVersion |-> 0, spent |-> FALSE,
                             amount |-> theTx.TxOut[i + 1].Amount,
                             pkScript |-> theTx.TxOut[i + 1].PkScript]]
    IN SetEntry(view, theTx.Hash,
                [entry EXCEPT !.modified = TRUE, !.sparseOutputs = outputs])

\* ---------------------------------------------------- connectTransaction
\* The stxos argument is a pointer to a slice: [nil, s], nil for a nil pointer.
\* c is [view, stxos, err].
RECURSIVE connectTransactionLoop(_, _, _, _)
\* The loop over the inputs that puts each record in front of the journal.
connectTransactionLoopPrepends(c, tx, blockIndex, inIndex) ==
    IF inIndex >= Len(tx.TxIn) THEN c
    ELSE LET txIn == tx.TxIn[inIndex + 1]
             originIndex == txIn.OutIndex
             entry == Entry(c.view, txIn.Hash)
         IN IF entry.nil THEN [c EXCEPT !.err = "AssertError:view missing input"]
            ELSE LET spent == SpendOutput(entry, originIndex)
                     stxo == [amount |-> AmountByIndex(spent, originIndex),
                              scriptVersion |-> ScriptVersionByIndex(spent, originIndex),
                              pkScript |-> PkScriptByIndex(spent, originIndex),
                              txIndex |-> blockIndex,
                              inIndex |-> inIndex,
                              txVersion |-> spent.txVersion,
                              order |-> Uint32(spent.order),
                              isCoinBase |-> spent.isCoinBase,
                              hasExpiry |-> spent.hasExpiry,
                              txType |-> spent.txType,
                              txFullySpent |-> IsFullySpent(spent)]
                     c1 == [c EXCEPT !.view = SetEntry(c.view, txIn.Hash, spent),
                                     !.stxos.s = IF c.stxos.nil THEN @
                                                 ELSE <<stxo>> \o @]
                 IN connectTransactionLoop(c1, tx, blockIndex, inIndex + 1)

connectTransactionLoop(c, tx, blockIndex, inIndex) ==
    IF inIndex >= Len(tx.TxIn) THEN c
    ELSE LET txIn == tx.TxIn[inIndex + 1]
             originIndex == txIn.OutIndex
             entry == Entry(c.view, txIn.Hash)
         IN IF entry.nil THEN [c EXCEPT !.err = "AssertError:view missing input"]
            ELSE LET spent == SpendOutput(entry, originIndex)
                     stxo == [amount |-> AmountByIndex(spent, originIndex),
                              scriptVersion |-> ScriptVersionByIndex(spent, originIndex),
                              pkScript |-> PkScriptByIndex(spent, originIndex),
                              txIndex |-> blockIndex,
                              inIndex |-> inIndex,
                              txVersion |-> spent.txVersion,
                              order |-> Uint32(spent.order),
                              isCoinBase |-> spent.isCoinBase,
                              hasExpiry |-> spent.hasExpiry,
                              txType |-> spent.txType,
                              txFullySpent |-> IsFullySpent(spent)]
                     c1 == [c EXCEPT !.view = SetEntry(c.view, txIn.Hash, spent),
                                     !.stxos.s = IF c.stxos.nil THEN @
                                                 ELSE Append(@, stxo)]
                 IN connectTransactionLoop(c1, tx, blockIndex, inIndex + 1)

\* connectTransaction that adds the outputs of the transaction even when an
\* input was missing.
connectTransactionAddsAlways(view, tx, blockOrder, blockIndex, stxos) ==
    LET c == connectTransactionLoop([view |-> view, stxos |-> stxos, err |-> "nil"],
                                    tx, blockIndex, 0)
    IN [c EXCEPT !.view = AddTxOuts(c.view, tx, blockOrder, blockIndex)]

connectTransaction(view, tx, blockOrder, blockIndex, stxos) ==
    IF IsCoinBaseTx(tx)
    THEN [view |-> AddTxOuts(view, tx, blockOrder, blockIndex), stxos |-> stxos,
          err |-> "nil"]
    ELSE LET c == connectTransactionLoop([view |-> view, stxos |-> stxos, err |-> "nil"],
                                         tx, blockIndex, 0)
         IN IF c.err # "nil" THEN c
            ELSE [c EXCEPT !.view = AddTxOuts(c.view, tx, blockOrder, blockIndex)]

\* -------------------------------------------------------- GetSpentTxOut
\* The zero value of SpentTxOut.
ZeroSpentTxOut ==
    [amount |-> 0, scriptVersion |-> 0, pkScript |-> NilScript, txIndex |-> 0,
     inIndex |-> 0, txVersion |-> 0, order |-> 0, isCoinBase |-> FALSE,
     hasExpiry |-> FALSE, txType |-> "TxTypeRegular", txFullySpent |-> FALSE]

\* The result is a pointer: [nil, stxo].
GetSpentTxOut(txIndex, inIndex, stxos) ==
    IF Len(stxos) = 0 THEN [nil |-> TRUE, stxo |-> ZeroSpentTxOut]
    ELSE LET hits == {i \in 1..Len(stxos) :
                         stxos[i].txIndex = Uint32(txIndex) /\ stxos[i].inIndex = Uint32(inIndex)}
         IN [nil |-> FALSE,
             stxo |-> IF hits = {} THEN ZeroSpentTxOut
                      ELSE stxos[CHOOSE i \in hits : \A j \in hits : i <= j]]

\* ------------------------------------------------ disconnectTransactions
\* d is [view, err].  The loop over the inputs of tx, last input first (l.454-502).
RECURSIVE disconnectTransactionsInputs(_, _, _, _, _)
\* The loop over the inputs that recreates the entry whatever the journal
\* record says.
disconnectTransactionsInputsRevivesAny(d, tx, txIdx, stxos, txInIdx) ==
    IF txInIdx < 0 THEN d
    ELSE LET got == GetSpentTxOut(txIdx, txInIdx, stxos)
             stxo == got.stxo
             txIn == tx.TxIn[txInIdx + 1]
             originHash == txIn.Hash
             originIndex == txIn.OutIndex
             found == Entry(d.view, originHash)
         IN IF got.nil THEN disconnectTransactionsInputs(d, tx, txIdx, stxos, txInIdx - 1)
            ELSE LET entry == IF found.nil
                              THEN newUtxoEntry(tx.Version, stxo.order, stxo.txIndex,
                                                stxo.isCoinBase, stxo.hasExpiry, stxo.txType)
                              ELSE found
                     outputs == IF originIndex \notin DOMAIN entry.sparseOutputs
                                THEN (originIndex :> [spent |-> FALSE,
                                                      amount |-> stxo.amount,
                                                      scriptVersion |-> stxo.scriptVersion,
                                                      pkScript |-> stxo.pkScript])
                                     @@ entry.sparseOutputs
                                ELSE [entry.sparseOutputs EXCEPT ![originIndex].spent = FALSE]
                     d1 == [d EXCEPT !.view =
                               SetEntry(d.view, originHash,
                                        [entry EXCEPT !.modified = TRUE,
                                                      !.sparseOutputs = outputs])]
                 IN disconnectTransactionsInputs(d1, tx, txIdx, stxos, txInIdx - 1)

disconnectTransactionsInputs(d, tx, txIdx, stxos, txInIdx) ==
    IF txInIdx < 0 THEN d
    ELSE LET got == GetSpentTxOut(txIdx, txInIdx, stxos)
             stxo == got.stxo
             txIn == tx.TxIn[txInIdx + 1]
             originHash == txIn.Hash
             originIndex == txIn.OutIndex
             found == Entry(d.view, originHash)
         IN IF got.nil THEN disconnectTransactionsInputs(d, tx, txIdx, stxos, txInIdx - 1)
            ELSE IF found.nil /\ ~stxo.txFullySpent
            THEN [d EXCEPT !.err = "AssertError:revive utx from non-fully spent stx entry"]
            ELSE LET entry == IF found.nil
                              THEN newUtxoEntry(tx.Version, stxo.order, stxo.txIndex,
                                                stxo.isCoinBase, stxo.hasExpiry, stxo.txType)
                              ELSE found
                     outputs == IF originIndex \notin DOMAIN entry.sparseOutputs
                                THEN (originIndex :> [spent |-> FALSE,
                                                      amount |-> stxo.amount,
                                                      scriptVersion |-> stxo.scriptVersion,
                                                      pkScript |-> stxo.pkScript])
                                     @@ entry.sparseOutputs
                                ELSE [entry.sparseOutputs EXCEPT ![originIndex].spent = FALSE]
                     d1 == [d EXCEPT !.view =
                               SetEntry(d.view, originHash,
                                        [entry EXCEPT !.modified = TRUE,
                                                      !.sparseOutputs = outputs])]
                 IN disconnectTransactionsInputs(d1, tx, txIdx, stxos, txInIdx - 1)

\* The loop over the transactions of the block, last transaction first (l.429-503).
RECURSIVE disconnectTransactionsLoop(_, _, _, _)
disconnectTransactionsLoop(d, block, stxos, txIdx) ==
    IF txIdx < 0 \/ d.err # "nil" THEN d
    ELSE LET tx == block.Transactions[txIdx + 1]
             isCoinbase == txIdx = 0
             found == Entry(d.view, tx.Hash)
             entry == IF found.nil
                      THEN newUtxoEntry(tx.Version, Uint32(block.Order), Uint32(txIdx),
                                        isCoinbase, tx.Expire # 0, "TxTypeRegular")
                      ELSE found
             d1 == [d EXCEPT !.view =
                       SetEntry(d.view, tx.Hash,
                                [entry EXCEPT !.modified = TRUE,
                                              !.sparseOutputs = EmptyMap])]
             d2 == IF isCoinbase THEN d1
                   ELSE disconnectTransactionsInputs(d1, tx, txIdx, stxos,
                                                     Len(tx.TxIn) - 1)
         IN disconnectTransactionsLoop(d2, block, stxos, txIdx - 1)

disconnectTransactions(view, block, stxos) ==
    LET d == disconnectTransactionsLoop([view |-> view, err |-> "nil"], block, stxos,
                                        Len(block.Transactions) - 1)
    IN IF d.err # "nil" THEN d
       ELSE [d EXCEPT !.view.bestHash = block.Hash]

\* ------------------------------------------------------------------ commit
\* commit that clears the modified marks and prunes nothing.
commitKeepsAll(view) ==
    [view EXCEPT !.entries =
        [txHash \in DOMAIN view.entries |->
            [view.entries[txHash] EXCEPT !.modified = FALSE]]]

commit(view) ==
    LET kept == {txHash \in DOMAIN view.entries :
                    LET entry == view.entries[txHash]
                    IN ~(entry.nil \/ (entry.modified /\ IsFullySpent(entry)))}
    IN [view EXCEPT !.entries =
           [txHash \in kept |-> [view.entries[txHash] EXCEPT !.modified = FALSE]]]

\* ------------------------------------------------------ the transactions
\* The transaction ids seen so far, in the view or in a connected block.
UsedTxIds ==
    DOMAIN utxoView.entries
      \cup UNION {{chain[i].block.Transactions[j].Hash :
                      j \in 1..Len(chain[i].block.Transactions)} : i \in 1..Len(chain)}

\* The ids a transaction can have or name: the ids seen and the next unseen id.
KnownTxIds == UsedTxIds \cup {h \in TxIds : \A u \in TxIds \ UsedTxIds : h <= u}

\* The previous outpoints a transaction with id h can name.
OutPoints(h) == {[Hash |-> t, OutIndex |-> i] : t \in KnownTxIds \ {h}, i \in OutIndexes}

\* The input lists of a regular transaction: 1..MaxIns different outpoints.
TxIns(h) ==
    {q \in UNION {[1..n -> OutPoints(h)] : n \in 1..MaxIns} :
        \A i, j \in 1..Len(q) : i # j => q[i] # q[j]}

\* Output i of the transaction with id h: a paying output or one that pays
\* nothing (provably unspendable).
TxOutOf(h, i, pays) ==
    [Amount |-> IF pays THEN 10 * h + i ELSE 0, PkScript |-> 100 + 10 * h + i]

\* The shapes of a transaction: MaxOuts outputs of which the last one pays;
\* version and expiry differ between the shapes.
TxShapes ==
    {[Version |-> IF p[1] THEN 1 ELSE 2, Expire |-> IF p[1] THEN 0 ELSE 1, Pays |-> p] :
        p \in {q \in [1..MaxOuts -> BOOLEAN] : q[MaxOuts]}}

\* The transactions with id h: coinbases (no input) or regular ones.
Txs(h, coinbase) ==
    {[Hash |-> h, Version |-> s.Version, Expire |-> s.Expire, TxIn |-> ins,
      TxOut |-> [i \in 1..Len(s.Pays) |-> TxOutOf(h, i - 1, s.Pays[i])]] :
        s \in TxShapes, ins \in IF coinbase THEN {<<>>} ELSE TxIns(h)}

\* ------------------------------------------------------------- the steps
\* No block has been disconnected since the last connect.
NoUndone == [phase |-> "none", pre |-> EmptyMap, committed |-> FALSE,
             duplicate |-> FALSE, unspendable |-> FALSE]

\* tx would replace an entry of the view that still has an unspent output.
DuplicatesLiveTx(v, tx) ==
    LET entry == Entry(v, tx.Hash) IN ~entry.nil /\ ~IsFullySpent(entry)

\* Some input of tx names an output that is not an unspent output of the view.
SpendsUnspendable(v, tx) ==
    \E i \in 1..Len(tx.TxIn) :
        LET entry == Entry(v, tx.TxIn[i].Hash)
        IN \/ entry.nil
           \/ tx.TxIn[i].OutIndex \notin DOMAIN entry.sparseOutputs
           \/ entry.sparseOutputs[tx.TxIn[i].OutIndex].spent

\* connectTransaction of the next transaction of a block, recording the spend
\* journal of the block: the first transaction of a block (position 0) is its
\* coinbase and opens the block, the others are regular transactions.
ConnectTransactionIn(blockTxs, calls) ==
    /\ utxoCalls < calls
    /\ utxoCalls' = utxoCalls + 1
    /\ utxoErr = "nil"
    /\ \E first \in {b \in BOOLEAN :
                        IF b THEN Len(chain) < MaxChain
                        ELSE /\ chain # <<>>
                             /\ Len(chain[Len(chain)].block.Transactions) < blockTxs} :
         \E h \in KnownTxIds : \E tx \in Txs(h, first) :
           LET open == IF first
                       THEN [block |-> [Hash |-> BlockHashBase + Len(chain) + 1,
                                        Order |-> Len(chain) + 1,
                                        Transactions |-> <<>>],
                             stxos |-> <<>>, pre |-> utxoView.entries,
                             committed |-> FALSE, duplicate |-> FALSE,
                             unspendable |-> FALSE]
                       ELSE chain[Len(chain)]
               r == connectTransaction(utxoView, tx, open.block.Order,
                                       Len(open.block.Transactions),
                                       [nil |-> FALSE, s |-> open.stxos])
               done == [open EXCEPT !.block.Transactions = Append(@, tx),
                                    !.stxos = r.stxos.s,
                                    !.duplicate = @ \/ DuplicatesLiveTx(utxoView, tx),
                                    !.unspendable = @ \/ SpendsUnspendable(utxoView, tx)]
           IN /\ utxoView' = r.view
              /\ utxoErr' = r.err
              /\ chain' = IF r.err # "nil" THEN chain
                          ELSE IF first THEN Append(chain, done)
                          ELSE [chain EXCEPT ![Len(chain)] = done]
    /\ undone' = NoUndone
    /\ UNCHANGED notUtxoVars

\* connectTransaction in the blocks of the UTXO specification.
ConnectTransaction == ConnectTransactionIn(MaxBlockTxs, MaxCalls)

\* connectTransaction in longer blocks: a coinbase and up to two regular
\* transactions, whose records share the journal of the block.
ConnectJournalled == ConnectTransactionIn(JournalBlockTxs, JournalCalls)

\* disconnectTransactions of the block connected last, with its journal.
DisconnectTransactions ==
    /\ utxoCalls < MaxCalls
    /\ utxoCalls' = utxoCalls + 1
    /\ utxoErr = "nil"
    /\ chain # <<>>
    /\ LET top == chain[Len(chain)]
           r == disconnectTransactions(utxoView, top.block, top.stxos)
       IN /\ utxoView' = r.view
          /\ utxoErr' = r.err
          /\ undone' = [phase |-> "disconnected", pre |-> top.pre,
                        committed |-> top.committed, duplicate |-> top.duplicate,
                        unspendable |-> top.unspendable]
    /\ chain' = [i \in 1..(Len(chain) - 1) |->
                    [chain[i] EXCEPT
                        !.committed = @ \/ chain[Len(chain)].committed,
                        !.duplicate = @ \/ chain[Len(chain)].duplicate,
                        !.unspendable = @ \/ chain[Len(chain)].unspendable]]
    /\ UNCHANGED notUtxoVars

Commit ==
    /\ utxoCalls < MaxCalls
    /\ utxoCalls' = utxoCalls + 1
    /\ utxoErr = "nil"
    /\ utxoView' = commit(utxoView)
    /\ chain' = [i \in 1..Len(chain) |-> [chain[i] EXCEPT !.committed = TRUE]]
    /\ undone' = IF undone.phase = "disconnected"
                 THEN [undone EXCEPT !.phase = "restored"]
                 ELSE NoUndone
    /\ UNCHANGED <<utxoErr, notUtxoVars>>

\* After an error the caller drops the view and takes a new one.
DropView ==
    /\ utxoErr # "nil"
    /\ utxoView' = NewUtxoViewpoint
    /\ chain' = <<>>
    /\ undone' = NoUndone
    /\ utxoErr' = "nil"
    /\ UNCHANGED <<utxoCalls, notUtxoVars>>

\* The goroutines beside the DAG engine and the viewpoint, before they run.
SideInit ==
    /\ adder = NoAdd
    /\ mtx = FALSE
    /\ observed = NoQuery
    /\ NewRebroadcast
    /\ NewSync

\* ------------------------------------------------------ fetchInputUtxos
\* No fetchInputUtxos call has been made.
NoFetch == [phase |-> "none",
            block |-> [Hash |-> Nil, Order |-> 0, Transactions |-> <<>>],
            needed |-> {}, inFlight |-> {}]

\* BlockChain.IsBadTx
IsBadTx(bad, h) == h \in bad

\* BlockChain.AddBadTx
AddBadTx(bad, h) == bad \cup {h}

\* The map txInFlight (l.300-306): the position of each transaction id in the
\* block, the last one when an id occurs twice.
TxInFlight(block) ==
    [h \in {block.Transactions[n].Hash : n \in 1..Len(block.Transactions)} |->
        CHOOSE i \in 0..(Len(block.Transactions) - 1) :
            /\ block.Transactions[i + 1].Hash = h
            /\ \A j \in (i + 1)..(Len(block.Transactions) - 1) :
                  block.Transactions[j + 1].Hash # h]

\* The loop over the inputs of transactions[1:][i] (l.315-342), from input k.
\* f is [view, bad, needed, inFlight]: the view, the bad transactions, the
\* set txNeededSet and the inputs that took the in-flight branch.
RECURSIVE fetchInputUtxosInputs(_, _, _, _)
fetchInputUtxosInputs(f, block, i, k) ==
    IF k >= Len(block.Transactions[i + 2].TxIn) THEN f
    ELSE Bind(block.Transactions[i + 2].TxIn[k + 1].Hash, LAMBDA originHash :
         IF IsBadTx(f.bad, originHash)
         THEN [f EXCEPT !.bad = AddBadTx(@, block.Transactions[i + 2].Hash)]
         ELSE IF /\ originHash \in DOMAIN TxInFlight(block)
                 /\ i >= TxInFlight(block)[originHash]
         THEN fetchInputUtxosInputs(
                  [f EXCEPT !.view = AddTxOuts(@,
                                block.Transactions[TxInFlight(block)[originHash] + 1],
                                block.Order, Uint32(i + 1)),
                            !.inFlight = @ \cup {[t |-> i + 1, k |-> k]}],
                  block, i, k + 1)
         ELSE IF originHash \in DOMAIN f.view.entries
         THEN fetchInputUtxosInputs(f, block, i, k + 1)
         ELSE fetchInputUtxosInputs([f EXCEPT !.needed = @ \cup {originHash}],
                                    block, i, k + 1))

\* The loop over transactions[1:] (l.311-343), from index i of that slice.
RECURSIVE fetchInputUtxosLoop(_, _, _)
\* The loop without the test of l.312-314: a bad transaction is processed
\* like any other.
fetchInputUtxosLoopNoSkip(f, block, i) ==
    IF i >= Len(block.Transactions) - 1 THEN f
    ELSE fetchInputUtxosLoop(fetchInputUtxosInputs(f, block, i, 0), block, i + 1)

fetchInputUtxosLoop(f, block, i) ==
    IF i >= Len(block.Transactions) - 1 THEN f
    ELSE IF IsBadTx(f.bad, block.Transactions[i + 2].Hash)
    THEN fetchInputUtxosLoop(f, block, i + 1)
    ELSE fetchInputUtxosLoop(fetchInputUtxosInputs(f, block, i, 0), block, i + 1)

\* dbFetchUtxoEntry: the entry the store has for the transaction, nil when it
\* has none.
dbFetchUtxoEntry(db, h) == db[h]

\* fetchUtxosMain: every requested transaction the view has no key for gets
\* the entry of the store, a nil entry when the store has none.
fetchUtxosMain(view, db, txSet) ==
    [view EXCEPT !.entries =
        [h \in txSet \ DOMAIN view.entries |-> dbFetchUtxoEntry(db, h)] @@ @]

fetchInputUtxos(view, block, bad, db) ==
    Bind(fetchInputUtxosLoop([view |-> view, bad |-> bad, needed |-> {},
                              inFlight |-> {}], block, 0),
         LAMBDA f : [f EXCEPT !.view = fetchUtxosMain(f.view, db, f.needed)])

\* The entry the store holds for transaction h when it holds one: every
\* output unspent.
StoredEntry(h) ==
    [newUtxoEntry(1, 0, 0, FALSE, FALSE, "TxTypeRegular") EXCEPT
        !.sparseOutputs = [i \in OutIndexes |->
                              [scriptVersion |-> 0, spent |-> FALSE,
                               amount |-> TxOutOf(h, i, TRUE).Amount,
                               pkScript |-> TxOutOf(h, i, TRUE).PkScript]]]

\* The stores a fetch can meet: one that has no transaction and one that has
\* every transaction.
Stores == {[h \in TxIds |-> NilEntry], [h \in TxIds |-> StoredEntry(h)]}

\* The transactions of a fetched block with id h: every output pays; a
\* regular one names 1..MaxIns different outputs of other transactions.
FetchTxs(h, coinbase) ==
    {[Hash |-> h, Version |-> 1, Expire |-> 0, TxIn |-> ins,
      TxOut |-> [i \in 1..MaxOuts |-> TxOutOf(h, i - 1, TRUE)]] :
        ins \in IF coinbase THEN {<<>>}
                ELSE {q \in UNION {[1..n -> {[Hash |-> t, OutIndex |-> o] :
                                                t \in TxIds \ {h}, o \in OutIndexes}] :
                                   n \in 1..MaxIns} :
                        \A a, b \in 1..Len(q) : a # b => q[a] # q[b]}}

\* The transaction lists of a fetched block: a coinbase, then up to
\* FetchBlockTxs - 1 regular transactions.
RECURSIVE FetchTxLists(_)
FetchTxLists(n) ==
    IF n = 1 THEN {<<tx>> : tx \in UNION {FetchTxs(h, TRUE) : h \in TxIds}}
    ELSE {Append(q, tx) : q \in FetchTxLists(n - 1),
                          tx \in UNION {FetchTxs(h, FALSE) : h \in TxIds}}

FetchBlocks ==
    {[Hash |-> BlockHashBase + 1, Order |-> 1, Transactions |-> q] :
        q \in UNION {FetchTxLists(n) : n \in 1..FetchBlockTxs}}

\* Upstream validation marks a transaction bad.
MarkBad ==
    /\ badTx = {}
    /\ fetched.phase = "none"
    /\ \E h \in TxIds : badTx' = AddBadTx(badTx, h)
    /\ UNCHANGED <<fetched, connected, utxoVars, dagVars, sideVars>>

\* A connectTransaction fills the view before the fetch.
Preload ==
    /\ fetched.phase = "none"
    /\ ConnectTransactionIn(FetchPreload, FetchPreload)

\* fetchInputUtxos of a block, against a store.
FetchInputUtxos ==
    /\ fetched.phase = "none"
    /\ utxoErr = "nil"
    /\ \E block \in FetchBlocks : \E db \in Stores :
         \E r \in {fetchInputUtxos(utxoView, block, badTx, db)} :
            /\ utxoView' = r.view
            /\ badTx' = r.bad
            /\ fetched' = [phase |-> "fetched", block |-> block,
                           needed |-> r.needed, inFlight |-> r.inFlight]
    /\ UNCHANGED <<connected, chain, undone, utxoErr, utxoCalls, dagVars, sideVars>>

FetchNext ==
    \/ MarkBad
    \/ Preload
    \/ FetchInputUtxos

\* ---------------------------------------------------- connectTransactions
\* A nil *types.SerializedBlock.
NilBlock == [nil |-> TRUE, Hash |-> Nil, Order |-> 0, Transactions |-> <<>>]

\* No connectTransactions call has been made.
NoConnect == [phase |-> "none", block |-> NilBlock, parent |-> NilBlock,
              stxos |-> <<>>, err |-> "nil"]

\* The loop over the transactions of the parent (l.523-529), from position
\* i (0-based); c is [view, stxos, err].
RECURSIVE connectTransactionsLoop(_, _, _)
connectTransactionsLoop(c, parent, i) ==
    IF i >= Len(parent.Transactions) THEN c
    ELSE Bind(connectTransaction(c.view, parent.Transactions[i + 1], parent.Order,
                                 Uint32(i), c.stxos),
              LAMBDA r : IF r.err # "nil" THEN r
                         ELSE connectTransactionsLoop(r, parent, i + 1))

\* BlockChain.connectTransactions (l.516-541); the result is
\* [view, stxos, bad, err].  fetchInputUtxos returns no error here: the
\* stores answer every request.
connectTransactions(view, block, parent, stxos, bad, db) ==
    LET start == [view |-> view, stxos |-> stxos, err |-> "nil"]
        f1 == fetchInputUtxos(view, block, bad, db)
        c == IF ~parent.nil /\ block.Order # 0
             THEN connectTransactionsLoop([start EXCEPT !.view = f1.view], parent, 0)
             ELSE start
        bad1 == IF ~parent.nil /\ block.Order # 0 THEN f1.bad ELSE bad
    IN IF c.err # "nil"
       THEN [view |-> c.view, stxos |-> c.stxos, bad |-> bad1, err |-> c.err]
       ELSE Bind(fetchInputUtxos(c.view, block, bad1, db),
                 LAMBDA f2 : [view |-> [f2.view EXCEPT !.bestHash = block.Hash],
                              stxos |-> c.stxos, bad |-> f2.bad, err |-> "nil"])

\* The blocks connectTransactions is called with: a coinbase, then up to
\* ConnectBlockTxs - 1 regular transactions.
ConnectBlocks ==
    {[nil |-> FALSE, Hash |-> BlockHashBase + 2, Order |-> o, Transactions |-> q] :
        o \in {0, 1}, q \in UNION {FetchTxLists(n) : n \in 1..ConnectBlockTxs}}

\* Its parents: none, or a block of a coinbase and at most one regular
\* transaction with one input.
ConnectParents ==
    {NilBlock} \cup
    {[nil |-> FALSE, Hash |-> BlockHashBase + 1, Order |-> 0, Transactions |-> q] :
        q \in {l \in UNION {FetchTxLists(n) : n \in 1..ConnectBlockTxs} :
                  \A i \in 1..Len(l) : Len(l[i].TxIn) <= 1}}

\* connectTransactions of a block and its parent on a fresh view, with a
\* journal.
ConnectTransactions ==
    /\ connected.phase = "none"
    /\ \E block \in ConnectBlocks : \E parent \in ConnectParents : \E db \in Stores :
         \E r \in {connectTransactions(utxoView, block, parent,
                                        [nil |-> FALSE, s |-> <<>>], badTx, db)} :
            /\ utxoView' = r.view
            /\ badTx' = r.bad
            /\ connected' = [phase |-> "connected", block |-> block, parent |-> parent,
                             stxos |-> r.stxos.s, err |-> r.err]
    /\ UNCHANGED <<fetched, chain, undone, utxoErr, utxoCalls, dagVars, sideVars>>

UtxoInit ==
    /\ utxoView = NewUtxoViewpoint
    /\ chain = <<>>
    /\ undone = NoUndone
    /\ utxoErr = "nil"
    /\ utxoCalls = 0
    /\ badTx = {}
    /\ fetched = NoFetch
    /\ connected = NoConnect
    /\ SideInit

UtxoNext ==
    \/ ConnectTransaction
    \/ DisconnectTransactions
    \/ Commit
    \/ DropView

\* The DAG engine before its first block.
DagIdle == StartsAs(0)

\* A fresh viewpoint beside an idle DAG engine.
UtxoSpecInit == UtxoInit /\ DagIdle

\* The UTXO viewpoint alone, with an idle DAG engine.
UtxoSpec == UtxoSpecInit /\ [][UtxoNext]_vars

\* Blocks connected transaction by transaction, each with its journal.
JournalSpec == UtxoSpecInit /\ [][ConnectJournalled]_vars

\* fetchInputUtxos of one block, on a view a connectTransaction may have
\* filled and with a transaction upstream may have marked bad.
FetchSpec == UtxoSpecInit /\ [][FetchNext]_vars

\* connectTransactions of one block on a fresh view.
ConnectSpec == UtxoSpecInit /\ [][ConnectTransactions]_vars

\* A fresh DAG engine beside a fresh viewpoint.
DagSpecInit == DagInit /\ UtxoInit

\* The DAG engine alone, with an idle UTXO viewpoint.
DagSpec == DagSpecInit /\ [][DagNext]_vars

\* The Rebroadcast with its handler goroutine and the goroutines calling it.
RebSpec == UtxoSpecInit /\ [][RebNext]_vars

\* The same, the Go scheduler running the handler goroutine whenever it can
\* take a step: a goroutine that is not blocked is not starved.
RebFairSpec == RebSpec /\ WF_vars(HandlerStep)

\* The steps goroutine c takes by itself inside Start, Stop, AddInventory
\* and RemoveInventory.
ClientStep(c) == StartHandler(c) \/ StopClose(c) \/ StopWait(c) \/ ModifySend(c)

\* The same with every goroutine scheduled: a goroutine that can take a step
\* takes it, and a select that is ready again and again for a receive or for
\* the closed quit channel takes that case in the end (a select picks among
\* its ready cases at random, l.68).
RebLiveSpec ==
    /\ RebSpec
    /\ WF_vars(HandlerStep)
    /\ SF_vars(HandlerQuit)
    /\ \A c \in Clients : SF_vars(HandlerReceive(c)) /\ WF_vars(ClientStep(c))

\* The Sync serving graph-state requests and asking its peers for theirs.
SyncSpec == UtxoSpecInit /\ [][SyncNext]_vars

\* A goroutine in AddBlock, statement by statement, beside a reader goroutine
\* that makes one query.
StepSpec == DagSpecInit /\ [][StepNext]_vars

\* ===================================================================
\* Properties of the DAG engine
\* ===================================================================
\* The total order: the non-nil prefix of commonOrder followed by tempOrder.
TotalOrder ==
    SubSeq(commonOrder, 1, GetCommonOrderNum(BlockDAG)) \o tempOrder

\* The offsets (from 0) at which h occurs in the total order.
Offsets(h) == {i - 1 : i \in {j \in 1..Len(TotalOrder) : TotalOrder[j] = h}}

\* An AddBlock has returned.
Added == totalBlocks > 0 /\ ~hung

\* C1: after every AddBlock the number of blocks in common_order plus the
\* length of temp_order equals totalBlocks.
C1_OrderCount ==
    Added => GetCommonOrderNum(BlockDAG) + Len(tempOrder) = totalBlocks

\* C2: after every AddBlock every non-genesis block is in the total order and
\* each of its parents sits at a strictly smaller position: wherever the block
\* occurs, every parent has occurred before.
C2_ParentsFirst ==
    Added => \A b \in index \ {genesis} : \A p \in parents[b] :
                 /\ Offsets(b) # {}
                 /\ \A i \in Offsets(b) : \E j \in Offsets(p) : j < i

C2_Witness ==
    /\ Added
    /\ \E b \in index : Cardinality(parents[b]) >= 2 /\ tips = {b}
    /\ \E x \in index : x \notin tempBlueSet
    /\ GetCommonOrderNum(BlockDAG) >= 2

\* The DAGs reached from bd by inserting the blocks of rest, with parents par,
\* in any parents-before-children order and with any map iteration order.
RECURSIVE Replays(_, _, _)
Replays(bd, par, rest) ==
    IF rest = {} THEN {bd}
    ELSE UNION {UNION {Replays(AddBlockOn(bd, b, par[b], iter), par, rest \ {b}) :
                           iter \in IterOrders(bd.index \cup {b})} :
                    b \in {x \in rest : IF bd.index = {} THEN x = GenesisHash
                                        ELSE par[x] \subseteq bd.index}}

\* C3: inserting the same set of blocks in any valid parents-before-children
\* order, with any iteration order of the block sets, yields the same
\* common_order and the same temp_order.
C3_OrderDeterministic ==
    Added => \A r \in Replays(NewBlockDAG(anticoneSize), parents, index) :
                 r.commonOrder = commonOrder /\ r.tempOrder = tempOrder

\* C4: the past_count frozen at insertion equals the number of blocks in the
\* transitive parent closure of the block.
C4_PastCount ==
    Added => \A b \in index : pastSetNum[b] = Cardinality(PastOf(parents, {b}))

C4_Witness ==
    /\ Added
    /\ \E b \in index : \E p, q \in parents[b] :
           /\ pastSetNum[p] < pastSetNum[q]
           /\ pastSetNum[b] > pastSetNum[q] + 1

\* C5: after every AddBlock common_blue and temp_blue (as getTempBS returns
\* it) have no block in common and hold only indexed blocks.
C5_BlueDisjoint ==
    Added => LET tempBs == getTempBS([BlockDAG EXCEPT !.iter = Ascending(index)]).tempBlueSet
             IN /\ commonBlueSet \cap tempBs = {}
                /\ commonBlueSet \subseteq index
                /\ tempBs \subseteq index

\* The anticone of h: the indexed blocks that are neither h, nor in its past,
\* nor in its future.
TrueAnticone(h) ==
    {x \in index \ {h} : x \notin PastOf(parents, {h}) /\ h \notin PastOf(parents, {x})}

Precedes(q, a, b) ==
    \E i, j \in 1..Len(q) : i < j /\ q[i] = a /\ q[j] = b

\* C7: a pair of blocks ordered in common_order keeps that order in the total
\* order after the next AddBlock (and so, step by step, after every later one).
C7_CommonPairsFixed ==
    [][\A a, b \in index :
          (Added /\ a # b /\ Precedes(commonOrder, a, b))
              => (Precedes(TotalOrder, a, b))']_vars

\* C9: after every AddBlock tips is exactly the set of indexed blocks that
\* have no children.
C9_TipsAreChildless ==
    Added => tips = {b \in index : children[b] = {}}

C9_Witness ==
    /\ Added
    /\ Cardinality(tips) >= 2
    /\ \E b \in index : Cardinality(parents[b]) >= 2
    /\ \E b \in tips : \E p \in parents[b] : Cardinality(children[p]) >= 2

\* C10: after every AddBlock every indexed block's order_height is its
\* offset in the total order, and is above 0 for every block but genesis.
C10_HeightIsOffset ==
    Added => \A b \in index :
                 /\ Offsets(b) = {height[b]}
                 /\ (b # genesis => height[b] > 0)

\* What a view shows of its entries: the transaction ids and, for each entry,
\* its fields and its unspent outputs with their amount and script.
Shown(entries) ==
    [h \in {k \in DOMAIN entries : ~entries[k].nil} |->
        [txVersion |-> entries[h].txVersion, order |-> entries[h].order,
         index |-> entries[h].index, isCoinBase |-> entries[h].isCoinBase,
         hasExpiry |-> entries[h].hasExpiry, txType |-> entries[h].txType,
         unspent |-> [i \in {j \in DOMAIN entries[h].sparseOutputs :
                                ~entries[h].sparseOutputs[j].spent} |->
                         <<entries[h].sparseOutputs[i].amount,
                           entries[h].sparseOutputs[i].pkScript>>]]]

\* A block was connected with its journal, disconnected with it, and the view
\* committed.
RoundTripDone == undone.phase = "restored" /\ utxoErr = "nil"

\* The view before the block was connected, after commit.
BeforeConnect == Shown(commit([entries |-> undone.pre, bestHash |-> Nil]).entries)

\* The disconnected block was a valid one: its transactions had ids without
\* a live entry in the view and spent only unspent outputs of the view.
ValidBlockUndone == ~undone.duplicate /\ ~undone.unspendable

\* C8: after connecting the transactions of a valid block with
\* connectTransaction (journal recorded), disconnectTransactions of the block
\* with that journal and commit, the view shows what it showed before the
\* connection, after commit.
C8_RoundTrip ==
    (RoundTripDone /\ ValidBlockUndone) => Shown(utxoView.entries) = BeforeConnect

\* The round trip of C8 when the view was not committed between the connection
\* and the disconnection.
RoundTripWithoutCommit ==
    (RoundTripDone /\ ValidBlockUndone /\ ~undone.committed)
        => Shown(utxoView.entries) = BeforeConnect

\* ------------------------------------------------------------------
\* Scenarios of the DAG engine
\* ------------------------------------------------------------------
\* The indexed DAG is a linear chain G, B1, ..., Bn with n >= 2: no block has
\* two parents or two children.  Parents are indexed before their children,
\* so such a DAG was inserted in chain order.
LinearChain ==
    /\ Added
    /\ totalBlocks >= 3
    /\ \A h \in index : Cardinality(parents[h]) <= 1 /\ Cardinality(children[h]) <= 1

\* B1, ..., Bn of a linear chain: Bi is the block with i ancestors.
ChainBlocks ==
    [i \in 1..(totalBlocks - 1) |->
        CHOOSE h \in index : Cardinality(PastOf(parents, {h})) = i]

\* C11: after a linear chain G, B1, ..., Bn (n >= 2) was inserted in that
\* order, tips = {Bn}, common_order = [G] and temp_order = [B1, ..., Bn].
C11_LinearChainOrder ==
    LinearChain => /\ tips = {ChainBlocks[totalBlocks - 1]}
                   /\ commonOrder = <<genesis>>
                   /\ tempOrder = ChainBlocks

\* A chain of five blocks whose hashes do not ascend along the chain.
C11_Witness ==
    /\ LinearChain
    /\ totalBlocks = 5
    /\ \E i \in 1..3 : ChainBlocks[i] > ChainBlocks[i + 1]

\* The last AddBlock inserted a non-genesis block and left it as the only
\* tip: a sole tip is the block inserted last, every other block having a
\* child.
SoleTipAdded == Added /\ totalBlocks >= 2 /\ Cardinality(tips) = 1

\* C12: whenever an AddBlock of a non-genesis block b leaves b as the only
\* tip, the hourglass set after the add is exactly {b}.
C12_HourglassIsSoleTip ==
    SoleTipAdded => hourglassBlocks = tips

\* The same for the chain G, B1, B2 of scenario S1 alone.
HourglassOfS1 ==
    (LinearChain /\ totalBlocks = 3) => hourglassBlocks = tips

\* The blocks B1 of a DAG shaped as scenario S2 before the merge: G, B1 on G,
\* and two blocks B2 and B3 on B1.  The second of them was inserted last.
ForkRoots ==
    {b1 \in index : /\ Added
                    /\ totalBlocks = 4
                    /\ parents[b1] = {genesis}
                    /\ Cardinality(children[b1]) = 2
                    /\ \A c \in children[b1] : parents[c] = {b1}}

\* C13: after G, B1 (parent G), B2 (parent B1), inserting B3 with parent B1
\* gives tips = {B2, B3}, last_common = {B1}, common_order = [G, B1] and
\* temp_order = B2 and B3 with the smaller id first.
C13_SidewaysFork ==
    \A b1 \in ForkRoots :
        /\ tips = children[b1]
        /\ lastCommonBlocks = {b1}
        /\ commonOrder = <<genesis, b1>>
        /\ tempOrder = Ascending(children[b1])

\* The fork was reached, with B1 of larger id than B2 and B3.
C13_Witness ==
    \E b1 \in ForkRoots : \A c \in children[b1] : c < b1

\* The step inserts a block whose parents are all the tips of the fork of
\* scenario S2 (B4 on {B2, B3}) and the AddBlock returns.
MergesFork ==
    /\ ForkRoots # {}
    /\ ~hung'
    /\ \E b4 \in index' \ index : parents'[b4] = tips /\ tips' = {b4}

\* C14: when B4 with parents {B2, B3} is inserted after the fork of S2 and
\* becomes the single tip, last_common moves forward: it differs from its
\* previous value {B1} and lies in the future of B1.
C14_LastCommonMovesForward ==
    [][MergesFork =>
          /\ lastCommonBlocks' # lastCommonBlocks
          /\ lastCommonBlocks' \subseteq PastOf(children', lastCommonBlocks)]_vars

\* ------------------------------------------------------------------
\* Contracts of the UTXO viewpoint
\* ------------------------------------------------------------------
\* The id of the parent of the i-th connected block: the block connected
\* before it, or the block the view started from.
ParentHash(i) == IF i = 1 THEN BlockHashBase ELSE chain[i - 1].block.Hash

\* The step is a disconnectTransactions of the last connected block that
\* returns without error.
Disconnected ==
    /\ Len(chain') < Len(chain)
    /\ undone'.phase = "disconnected"
    /\ utxoErr' = "nil"

\* C15: after disconnectTransactions(view, block, journal) returns without
\* error, the best hash of the view is the id of the parent of block.
C15_BestIsParent ==
    [][Disconnected => utxoView'.bestHash = ParentHash(Len(chain))]_vars

\* The step is a connectTransaction that returns without error: the last
\* connected block has one more transaction than before.
Connected ==
    /\ utxoErr' = "nil"
    /\ chain' # <<>>
    /\ \/ Len(chain') > Len(chain)
       \/ /\ Len(chain') = Len(chain)
          /\ Len(chain'[Len(chain')].block.Transactions)
                > Len(chain[Len(chain)].block.Transactions)

\* The transaction the step connected.
ConnectedTx ==
    chain'[Len(chain')].block.Transactions[Len(chain'[Len(chain')].block.Transactions)]

\* C16: AddTxOuts for a transaction whose id has an entry in the view
\* succeeds when that entry has no unspent output and is rejected with
\* DuplicateLiveTx, the entry unchanged, when it still has an unspent output:
\* no transaction whose id names a live entry is ever connected.
C16_DuplicateLiveTx ==
    [][Connected => ~DuplicatesLiveTx(utxoView, ConnectedTx)]_vars

\* What the code does instead: the outputs of the new transaction are written
\* over the live entry and the call returns no error.
LiveEntryReplaced ==
    [][(Connected /\ DuplicatesLiveTx(utxoView, ConnectedTx)) =>
          \A i \in DOMAIN Entry(utxoView', ConnectedTx.Hash).sparseOutputs :
             ConnectedTx.TxOut[i + 1].Amount # 0 =>
               /\ ~Entry(utxoView', ConnectedTx.Hash).sparseOutputs[i].spent
               /\ Entry(utxoView', ConnectedTx.Hash).sparseOutputs[i].amount
                     = ConnectedTx.TxOut[i + 1].Amount]_vars

\* The view with a nil entry for the transaction ids of s, as fetchUtxosMain
\* leaves it for transactions the database does not have (l.205-218).
WithNilEntries(view, s) ==
    [view EXCEPT !.entries = [h \in s |-> NilEntry] @@ view.entries]

\* The views a connectTransaction can meet in this state: the view itself,
\* or with a nil entry for one transaction id it has no entry for.
ViewsToConnect ==
    {utxoView} \cup {WithNilEntries(utxoView, {h}) :
                        h \in KnownTxIds \ DOMAIN utxoView.entries}

\* The regular transactions a connectTransaction can be called with.
RegularTxs == UNION {Txs(h, FALSE) : h \in KnownTxIds}

\* Some input of tx references a transaction whose entry is absent or nil.
MissingInput(view, tx) ==
    \E i \in 1..Len(tx.TxIn) : Entry(view, tx.TxIn[i].Hash).nil

\* The next UTXO call can be made: the guard of the UTXO steps.
CanCall == utxoCalls < MaxCalls /\ utxoErr = "nil"

\* C17: connectTransaction on a non-coinbase transaction returns the
\* missing-input assert error whenever the entry of a transaction referenced
\* by one of its inputs is absent or nil, and then does not add the outputs
\* of the transaction to the view.  Stated for every call that can be made in
\* a reachable state.
C17_MissingReferencedUtxo ==
    CanCall =>
    Bind(RegularTxs, LAMBDA txs :
        \A view \in ViewsToConnect : \A tx \in txs :
            MissingInput(view, tx) =>
                Bind(connectTransaction(view, tx, 1, 1, [nil |-> FALSE, s |-> <<>>]),
                     LAMBDA r : /\ r.err = "AssertError:view missing input"
                                /\ Entry(r.view, tx.Hash) = Entry(view, tx.Hash)))

\* A connectTransaction has returned the error after it spent the output of
\* an earlier input: the view holds a spent output and the error.
C17_Witness ==
    /\ utxoErr = "AssertError:view missing input"
    /\ \E h \in DOMAIN utxoView.entries :
          \E i \in DOMAIN utxoView.entries[h].sparseOutputs :
             utxoView.entries[h].sparseOutputs[i].spent

\* The step is a disconnectTransactions of the last connected block, whether
\* it returns an error or not.
DisconnectCalled == Len(chain') < Len(chain) /\ undone'.phase = "disconnected"

\* The inputs of the block, each as [t, k]: input k of the transaction at
\* position t (both from 0); the coinbase at position 0 has none.
InputsOf(block) ==
    {x \in [t : 0..(Len(block.Transactions) - 1), k : 0..(MaxIns - 1)] :
        x.k < Len(block.Transactions[x.t + 1].TxIn)}

\* The outpoint input x of the block spends.
OriginOf(block, x) == block.Transactions[x.t + 1].TxIn[x.k + 1]

\* disconnectTransactions reaches input y before input x: it walks the
\* transactions from the last one and the inputs of each from the last one.
ReachedBefore(y, x) == y.t > x.t \/ (y.t = x.t /\ y.k > x.k)

\* The view has no entry for the transaction input x references when
\* disconnectTransactions reaches x: it had none when the call began, no
\* transaction cleared until then has that id and no input reached before x
\* references it.
NoEntryWhenReached(view, block, x) ==
    /\ Entry(view, OriginOf(block, x).Hash).nil
    /\ \A t \in x.t..(Len(block.Transactions) - 1) :
          block.Transactions[t + 1].Hash # OriginOf(block, x).Hash
    /\ \A y \in InputsOf(block) :
          ReachedBefore(y, x) => OriginOf(block, y).Hash # OriginOf(block, x).Hash

\* The journal record disconnectTransactions consumes for input x says the
\* referenced transaction was fully spent.
JournalFullySpent(stxos, x) == GetSpentTxOut(x.t, x.k, stxos).stxo.txFullySpent

\* Input x has to be resurrected from a record that is not fully spent.
MustFail(view, block, stxos, x) ==
    NoEntryWhenReached(view, block, x) /\ ~JournalFullySpent(stxos, x)

\* The inputs the call gets to: no input reached before them has to fail.
InputsReached(view, block, stxos) ==
    {x \in InputsOf(block) :
        \A y \in InputsOf(block) :
            ReachedBefore(y, x) => ~MustFail(view, block, stxos, y)}

\* C18: in disconnectTransactions, when the view has no entry for the
\* transaction an input references, the entry is recreated and the output
\* restored as unspent only if the journal record of that input has
\* txFullySpent set; otherwise the call fails with the resurrection assert
\* error and creates no entry for that transaction.
C18_Resurrection ==
    [][DisconnectCalled =>
        \A x \in InputsReached(utxoView, chain[Len(chain)].block,
                                chain[Len(chain)].stxos) :
          NoEntryWhenReached(utxoView, chain[Len(chain)].block, x) =>
            IF JournalFullySpent(chain[Len(chain)].stxos, x)
            THEN /\ ~Entry(utxoView', OriginOf(chain[Len(chain)].block, x).Hash).nil
                 /\ (\A t \in 0..(x.t - 1) :
                        chain[Len(chain)].block.Transactions[t + 1].Hash
                          # OriginOf(chain[Len(chain)].block, x).Hash)
                     => /\ OriginOf(chain[Len(chain)].block, x).OutIndex \in
                             DOMAIN Entry(utxoView',
                                 OriginOf(chain[Len(chain)].block, x).Hash).sparseOutputs
                        /\ ~Entry(utxoView', OriginOf(chain[Len(chain)].block, x).Hash)
                              .sparseOutputs[OriginOf(chain[Len(chain)].block, x).OutIndex]
                              .spent
            ELSE /\ utxoErr' = "AssertError:revive utx from non-fully spent stx entry"
                 /\ Entry(utxoView', OriginOf(chain[Len(chain)].block, x).Hash).nil
      ]_vars

\* A disconnectTransactions has recreated the entry of a pruned transaction
\* from its journal and returned without error.
C18_Witness ==
    /\ undone.phase = "disconnected"
    /\ utxoErr = "nil"
    /\ undone.committed
    /\ \E h \in DOMAIN utxoView.entries :
          /\ h \notin DOMAIN undone.pre
          /\ \E i \in DOMAIN utxoView.entries[h].sparseOutputs :
                ~utxoView.entries[h].sparseOutputs[i].spent

\* A disconnectTransactions has failed on a record that is not fully spent.
ResurrectionRefused ==
    /\ undone.phase = "disconnected"
    /\ utxoErr = "AssertError:revive utx from non-fully spent stx entry"

\* The step is a commit: a call that returns no error and leaves the blocks
\* of the chain as they are.
CommitCalled ==
    /\ utxoCalls' = utxoCalls + 1
    /\ utxoErr' = "nil"
    /\ Len(chain') = Len(chain)
    /\ \A i \in 1..Len(chain) : chain'[i].block = chain[i].block

\* The entry has no unspent output.
NoUnspentOutput(entry) ==
    \A i \in DOMAIN entry.sparseOutputs : entry.sparseOutputs[i].spent

\* C19: after commit no entry of the view is marked modified, every entry
\* that was modified and had no unspent output has been removed, and every
\* other non-nil entry is still present with its outputs unchanged.
C19_Commit ==
    [][CommitCalled =>
        /\ \A h \in DOMAIN utxoView'.entries : ~utxoView'.entries[h].modified
        /\ \A h \in DOMAIN utxoView.entries :
              \/ utxoView.entries[h].nil
              \/ IF utxoView.entries[h].modified /\ NoUnspentOutput(utxoView.entries[h])
                 THEN h \notin DOMAIN utxoView'.entries
                 ELSE /\ h \in DOMAIN utxoView'.entries
                      /\ utxoView'.entries[h].sparseOutputs
                            = utxoView.entries[h].sparseOutputs
      ]_vars

\* A commit has pruned the entry of a transaction of a connected block and
\* kept another entry, which has a spent and an unspent output.
C19_Witness ==
    /\ chain # <<>>
    /\ chain[Len(chain)].committed
    /\ utxoErr = "nil"
    /\ \A h \in DOMAIN utxoView.entries : ~utxoView.entries[h].modified
    /\ UsedTxIds \ DOMAIN utxoView.entries # {}
    /\ \E h \in DOMAIN utxoView.entries :
          \E i, j \in DOMAIN utxoView.entries[h].sparseOutputs :
             /\ utxoView.entries[h].sparseOutputs[i].spent
             /\ ~utxoView.entries[h].sparseOutputs[j].spent

\* ------------------------------------------------------------------
\* The journal of a block
\* ------------------------------------------------------------------
\* The journal of the block the step connects a transaction to, before the
\* step: empty when the step opens the block.
JournalBefore == IF Len(chain') > Len(chain) THEN <<>> ELSE chain[Len(chain)].stxos

JournalInBlockOrder ==
    \A b \in 1..Len(chain) :
        /\ Cardinality(InputsOf(chain[b].block)) = Len(chain[b].stxos)
        /\ \A i, j \in 1..Len(chain[b].stxos) :
              i < j => \/ chain[b].stxos[i].txIndex < chain[b].stxos[j].txIndex
                       \/ /\ chain[b].stxos[i].txIndex = chain[b].stxos[j].txIndex
                          /\ chain[b].stxos[i].inIndex < chain[b].stxos[j].inIndex

Journals == {chain[b].stxos : b \in 1..Len(chain)} \cup {<<>>}

\* C21: GetSpentTxOut(txIndex, inIndex, journal) reports absence (nil)
\* whenever the journal holds no record with that transaction index and input
\* index, whether the journal is empty or not; it never returns a zero-valued
\* record.
C21_NoMatchIsNil ==
    \A stxos \in Journals :
        \A txIndex \in 0..JournalBlockTxs : \A inIndex \in 0..MaxIns :
            (\A i \in 1..Len(stxos) :
                ~(stxos[i].txIndex = txIndex /\ stxos[i].inIndex = inIndex))
            => GetSpentTxOut(txIndex, inIndex, stxos).nil

\* What the code does for a journal that is not empty: every lookup returns
\* a record, the zero record when nothing matches.
NoMatchIsZeroRecord ==
    \A stxos \in Journals \ {<<>>} :
        \A txIndex \in 0..JournalBlockTxs : \A inIndex \in 0..MaxIns :
            /\ ~GetSpentTxOut(txIndex, inIndex, stxos).nil
            /\ (\A i \in 1..Len(stxos) :
                   ~(stxos[i].txIndex = txIndex /\ stxos[i].inIndex = inIndex))
               => GetSpentTxOut(txIndex, inIndex, stxos).stxo = ZeroSpentTxOut

\* ------------------------------------------------------------------ C22
\* The inputs of the fetched block: position t of the block, input k.
FetchedInputs ==
    {[t |-> t, k |-> k] : t \in 1..(FetchBlockTxs - 1), k \in 0..(MaxIns - 1)}
        \cap {e \in [t : Nat, k : Nat] :
                 /\ e.t < Len(fetched.block.Transactions)
                 /\ e.k < Len(fetched.block.Transactions[e.t + 1].TxIn)}

\* The transaction id input e of the fetched block names.
OriginHash(e) == fetched.block.Transactions[e.t + 1].TxIn[e.k + 1].Hash

\* Every input served in flight names a transaction at a strictly earlier
\* position of the block.
InFlightStrictlyEarlier ==
    fetched.phase = "fetched" =>
        \A e \in fetched.inFlight :
            \E p \in 0..(e.t - 1) :
                fetched.block.Transactions[p + 1].Hash = OriginHash(e)

\* C22: in fetchInputUtxos an input of the transaction at position j is
\* served in flight only when the transaction it names is at a strictly
\* earlier position of the block, the transaction at position 1 is never
\* served in flight, and every other named id the view did not have is
\* requested from the store.
C22_InFlightFetch ==
    [][(fetched.phase = "none" /\ fetched'.phase = "fetched") =>
        /\ InFlightStrictlyEarlier'
        /\ \A e \in fetched'.inFlight : e.t # 1
        /\ \A e \in FetchedInputs' :
              (e \notin fetched'.inFlight
                  /\ OriginHash(e)' \notin DOMAIN utxoView.entries)
              => OriginHash(e)' \in fetched'.needed]_vars

\* ------------------------------------------------------------------ C23
\* C23: no read query on the DAG runs interleaved with an AddBlock: a query
\* is answered only while no goroutine is between the statements of AddBlock,
\* so it never sees totalBlocks incremented with tips or the order not yet
\* recomputed.
C23_QueriesExcludeAdd ==
    observed.op # "none" => observed.pc = "idle"

\* ------------------------------------------------------------------ C25
\* C25: however often and from however many goroutines Stop is called, the
\* quit channel is closed exactly once, never twice, and every call other
\* than the first returns nil and changes nothing but the shutdown counter.
C25_StopIdempotent ==
    [][/\ rbQuit' <= 1
       /\ ~rbPanic'
       /\ (rbShutdown' >= 1 /\ \A c \in Clients : rbClients'[c].pc # "close")
             => rbQuit' = 1
       /\ \A c \in Clients :
             (rbShutdown >= 1 /\ rbShutdown' # rbShutdown
                 /\ rbClients'[c] # rbClients[c])
             => /\ rbClients'[c] = [Idle EXCEPT !.ret = "nil"]
                /\ UNCHANGED <<rbStarted, rbQuit, rbWg, rbHandler, rbMempool,
                               rbRelayed, rbPanic>>]_vars

\* Stop was called MaxStops times, one call closed the channel and waits
\* for the handler while another call has returned nil.
C25_Witness ==
    /\ rbShutdown = MaxStops
    /\ rbQuit = 1
    /\ \E c, d \in Clients :
          /\ rbClients[c].pc = "wait"
          /\ rbClients[d] = [Idle EXCEPT !.ret = "nil"]

\* ------------------------------------------------------------------ C26
\* The timer has fired and the range has yet to reach item h, a transaction
\* the mempool no longer has.
StaleAtTimer(h) ==
    /\ rbHandler.pc = "range"
    /\ h \in rbHandler.todo
    /\ rbHandler.pendingInvs[h] = "TxDesc"
    /\ h \notin rbMempool

\* The handler is back at its select, ready for add, remove, timer and quit.
Serving == rbHandler.pc = "select"

\* C26: when the timer fires while the pending set holds a transaction the
\* mempool no longer has, the handler drops the item without relaying it,
\* finishes the round and is back serving add, remove, timer and quit
\* events: it never stays blocked on its own request channel.
C26_StaleDroppedAndServing ==
    \A h \in InvHashes :
        StaleAtTimer(h) ~>
            (Serving /\ h \notin DOMAIN rbHandler.pendingInvs /\ h \notin rbRelayed)

\* The handler is sending on modifyRebroadcastInv, the channel only the
\* handler receives from.
SendsToItself == rbHandler.pc = "send"

\* Once the handler sends on its own channel it stays there.
BlockedForever == [][SendsToItself => SendsToItself']_vars

\* ------------------------------------------------------------------ C27
\* The step is a call of graphStateHandler.
HandlerCalled == syCall'.op = "graphStateHandler" /\ syCall' # syCall

\* The graph state of a peer changes, or a peer update is started, only in
\* a call for a known peer with a GraphState message.
UpdatesOnlyOnGraphState ==
    [][(HandlerCalled /\ (syPeers' # syPeers \/ syUpdates' # syUpdates))
        => (syCall'.remote \in Peers /\ syCall'.msg = "GraphState")]_vars

\* C27: graphStateHandler records the peer's graph state and schedules a
\* peer update only for a known peer and a GraphState message; for an
\* unknown peer it returns ErrPeerUnknown and changes nothing; for a message
\* of another type it returns an error, leaves the graph state alone and
\* increments the peer's bad-response counter.
C27_GraphStateHandler ==
    [][HandlerCalled =>
        /\ (\E pe \in Peers : syPeers'[pe].graphState # syPeers[pe].graphState)
               \/ syUpdates' # syUpdates
             => (syCall'.remote \in Peers /\ syCall'.msg = "GraphState")
        /\ syCall'.remote \notin Peers
             => (syCall'.ret = "ErrPeerUnknown" /\ UNCHANGED <<syPeers, syUpdates>>)
        /\ (syCall'.remote \in Peers /\ syCall'.msg # "GraphState")
             => /\ syCall'.ret \notin {"nil", "none"}
                /\ syPeers'[syCall'.remote].graphState
                       = syPeers[syCall'.remote].graphState
                /\ syPeers[syCall'.remote].badResponses < MaxBad
                     => syPeers'[syCall'.remote].badResponses
                           = syPeers[syCall'.remote].badResponses + 1]_vars

\* graphStateHandler never changes a bad-response counter.
HandlerLeavesBadResponses ==
    [][HandlerCalled =>
        \A pe \in Peers : syPeers'[pe].badResponses = syPeers[pe].badResponses]_vars

\* ------------------------------------------------------------------ C28
\* C28: after any sequence of AddBlock calls, GetBlockOrder of every indexed
\* block h is an index i with 0 <= i < totalBlocks at which GetBlockByOrder
\* returns h, and GetBlockOrder of a hash that is not in the order is -1.
C28_OrderRoundTrip ==
    Added =>
        /\ \A h \in index :
              /\ GetBlockOrder(BlockDAG, h) >= 0
              /\ GetBlockOrder(BlockDAG, h) < totalBlocks
              /\ GetBlockByOrder(BlockDAG, GetBlockOrder(BlockDAG, h)) = h
        /\ \A h \in Hashes \ Range(TotalOrder) : GetBlockOrder(BlockDAG, h) = -1

\* The same while the order holds every block once: no AddBlock has logged
\* an order error so far.
OrderRoundTripWhenCounted ==
    (Added /\ Len(TotalOrder) = totalBlocks
        /\ \A h \in index : Cardinality(Offsets(h)) = 1)
    => /\ \A h \in index :
             /\ GetBlockOrder(BlockDAG, h) \in Offsets(h)
             /\ GetBlockByOrder(BlockDAG, GetBlockOrder(BlockDAG, h)) = h
       /\ \A h \in Hashes \ index : GetBlockOrder(BlockDAG, h) = -1

\* ------------------------------------------------------------------ C29
\* The AddBlock of this step moves last_common backward: the frontier
\* changes and the future of the new one contains the future of the old one.
MovesBack ==
    /\ Added
    /\ ~hung'
    /\ lastCommonBlocks # {}
    /\ lastCommonBlocks' # lastCommonBlocks
    /\ PastOf(children', lastCommonBlocks) \subseteq PastOf(children', lastCommonBlocks')

\* No block in the future of last_common is in common_order or common_blue.
FutureCleared ==
    \A x \in PastOf(children, lastCommonBlocks) :
        x \notin Range(commonOrder) /\ x \notin commonBlueSet

\* C29: whenever an AddBlock moves last_common backward, a late block whose
\* only parent is genesis included, after the add no block in the future of
\* the new last_common remains in common_order or in common_blue.
C29_RollbackClears == [][MovesBack => FutureCleared']_vars

\* The same for the adds whose block has a parent other than genesis: the
\* roll back of updateCommonBlueSet.
RollbackBranchClears ==
    [][(MovesBack /\ \A b \in index' \ index : parents'[b] # {genesis})
        => FutureCleared']_vars

\* ------------------------------------------------------------------ C30
\* The past blue sets GetTempBlueSet hands to calculateBlueSet (l.815-821).
TipsPastBlue(bd) ==
    calculatePastBlueSetLoop(bd, GetMap(bd, bd.tips), calLastCommonBlocksPBS(bd), FALSE)

\* The reference procedure's visit of the blocks ks, in the order given:
\* x is added exactly when the blue blocks in its anticone are at most k.
RECURSIVE ReferenceBlueLoop(_, _, _, _, _)
ReferenceBlueLoop(bd, result, ks, exclude, useCommon) ==
    IF ks = <<>> THEN result
    ELSE LET x == Head(ks)
             B == GetAnticone(bd, x, exclude)
             I == (result \cap B)
                     \cup (IF useCommon THEN bd.commonBlueSet \cap B ELSE {})
         IN ReferenceBlueLoop(bd,
                IF Cardinality(I) <= bd.anticoneSize THEN result \cup {x} ELSE result,
                Tail(ks), exclude, useCommon)

\* The reference procedure: the seed of the selected parent, then the blocks
\* of its anticone in sort_by_past_count order.
ReferenceBlueSet(bd, ps, exclude, pastBlueSet, useCommon) ==
    LET pastBlue == [k \in ps |-> IF k \in DOMAIN pastBlueSet THEN pastBlueSet[k] ELSE {}]
        selected == GetMaxLenBlockSet(pastBlue)
    IN IF Cardinality(ps) = 1 THEN pastBlue[selected] \cup {selected}
       ELSE ReferenceBlueLoop(bd, pastBlue[selected] \cup {selected},
                SortBlocks(bd, GetAnticone(bd, selected, exclude)),
                exclude, useCommon)

\* The BlockDAG with its maps iterating in order iter.
Iterating(iter) == [BlockDAG EXCEPT !.iter = iter]

\* C30: calculateBlueSet returns the set of the reference procedure (seed of
\* the selected parent, then the blocks of its anticone in
\* sort_by_past_count order, each added exactly when at most k blue blocks
\* are in its anticone), whatever order the anticone set is enumerated in.
\* Checked on the call GetTempBlueSet makes for the tips.
C30_BlueSetIsReference ==
    (Added /\ ~HasOnly(tips, genesis)) =>
        \A iter \in IterOrders(index) :
            calculateBlueSet(Iterating(iter), tips, NilSet,
                             TipsPastBlue(Iterating(Ascending(index))), FALSE)
                = ReferenceBlueSet(Iterating(Ascending(index)), tips, NilSet,
                                   TipsPastBlue(Iterating(Ascending(index))), FALSE)

\* The two enumeration orders of the anticone give different blue sets.
BlueSetDependsOnOrder ==
    /\ Added
    /\ ~HasOnly(tips, genesis)
    /\ calculateBlueSet(Iterating(Ascending(index)), tips, NilSet,
                        TipsPastBlue(Iterating(Ascending(index))), FALSE)
          # calculateBlueSet(Iterating(Reverse(Ascending(index))), tips, NilSet,
                             TipsPastBlue(Iterating(Ascending(index))), FALSE)

\* ---------------------------------------------------------------------------
\* GetAnticone against the definition of the anticone (part_000 l.209-249)
\* ---------------------------------------------------------------------------

\* The blocks neither in the past nor in the future of b, b itself left out.
AnticoneOf(b) ==
    index \ (PastOf(parents, {b}) \cup PastOf(children, {b}) \cup {b})

\* The exclude sets GetAnticone is called with: none, or a set of blocks.
Excludes == {NilSet} \cup {{x} : x \in index} \cup {index}

\* C31: GetAnticone(b, exclude) returns every indexed block that is neither
\* in the past nor in the future of b, b and the exclude set left out,
\* whatever order the maps are enumerated in; with no exclude set, one block
\* is in the other's result exactly when the other is in its result.
C31_AnticoneIsIncomparable ==
    Added =>
        \A iter \in IterOrders(index) : \A b \in index :
            /\ \A exclude \in Excludes :
                 GetAnticone(Iterating(iter), b, exclude)
                     = AnticoneOf(b) \ (IF exclude = NilSet THEN {} ELSE exclude)
            /\ \A a \in index :
                 (a \in GetAnticone(Iterating(iter), b, NilSet))
                     = (b \in GetAnticone(Iterating(iter), a, NilSet))

\* GetAnticone has been asked for a block that has blocks in its anticone.
C31_Witness ==
    /\ Added
    /\ \E b \in index :
          /\ AnticoneOf(b) # {}
          /\ GetAnticone(Iterating(Ascending(index)), b, NilSet) = AnticoneOf(b)
          /\ \E x \in AnticoneOf(b) :
                /\ AnticoneOf(b) # {x}
                /\ GetAnticone(Iterating(Ascending(index)), b, {x}) = AnticoneOf(b) \ {x}

\* ---------------------------------------------------------------------------
\* connectTransactions (utxo.go l.516-541)
\* ---------------------------------------------------------------------------

\* A connectTransactions call has returned nil.
ReturnedNil == connected.phase = "connected" /\ connected.err = "nil"

\* Output o (0-based) of transaction h is in the view with the given spent flag.
InViewAs(h, o, spent) ==
    /\ ~LookupEntry(utxoView, h).nil
    /\ o \in DOMAIN LookupEntry(utxoView, h).sparseOutputs
    /\ LookupEntry(utxoView, h).sparseOutputs[o].spent = spent

\* The inputs of the transactions of block after its coinbase.
BlockInputs(block) ==
    {i \in [t : 2..Len(block.Transactions), k : 1..MaxIns] :
        i.k <= Len(block.Transactions[i.t].TxIn)}

\* C32: after connectTransactions(view, block, parent, journal) returns
\* without error, every spendable output created by a transaction of the
\* passed block is in the view unspent unless the block itself spends it,
\* every output an input of the block spends is marked spent, the journal
\* holds one record per such input, and the best hash is the block's hash.
C32_ConnectTransactions ==
    ReturnedNil =>
        LET block == connected.block
            spends == {block.Transactions[i.t].TxIn[i.k] : i \in BlockInputs(block)}
        IN /\ \A t \in 1..Len(block.Transactions) : \A o \in OutIndexes :
                LET h == block.Transactions[t].Hash
                IN [Hash |-> h, OutIndex |-> o] \notin spends => InViewAs(h, o, FALSE)
           /\ \A in \in spends : InViewAs(in.Hash, in.OutIndex, TRUE)
           /\ Len(connected.stxos) = Cardinality(BlockInputs(block))
           /\ utxoView.bestHash = block.Hash

\* What connectTransactions does instead: the best hash is the block's, and
\* the journal holds one record per input of the parent's transactions when
\* the parent was connected and none otherwise.
ConnectsTheParent ==
    ReturnedNil =>
        /\ utxoView.bestHash = connected.block.Hash
        /\ Len(connected.stxos)
             = IF ~connected.parent.nil /\ connected.block.Order # 0
               THEN Cardinality(BlockInputs(connected.parent))
               ELSE 0

\* ---------------------------------------------------------------------------
\* The frame of fetchInputUtxos (utxo.go l.296-354)
\* ---------------------------------------------------------------------------

\* The step is a fetchInputUtxos call.
Fetches == fetched.phase = "none" /\ fetched'.phase = "fetched"

\* C33: fetchInputUtxos never modifies an entry that was in the view before
\* the call: its outputs with their spent flags, amounts and scripts, its
\* order, index and modified flag are the same after the call, also when the
\* entry belongs to a transaction of the same block.
C33_FetchKeepsEntries ==
    [][Fetches =>
        \A h \in DOMAIN utxoView.entries :
            /\ h \in DOMAIN utxoView'.entries
            /\ utxoView'.entries[h] = utxoView.entries[h]]_vars

\* What holds instead: the call keeps every entry that no input served in
\* flight names, and removes no entry.
FetchKeepsOtherEntries ==
    [][Fetches =>
        \A h \in DOMAIN utxoView.entries :
            /\ h \in DOMAIN utxoView'.entries
            /\ (\A e \in fetched'.inFlight : OriginHash(e)' # h)
                  => utxoView'.entries[h] = utxoView.entries[h]]_vars

\* ---------------------------------------------------------------------------
\* Bad transactions in fetchInputUtxos (utxo.go l.311-331)
\* ---------------------------------------------------------------------------

\* The transaction at position t (0-based) of block is bad when its turn
\* ends: it was bad before the call, or one of its inputs names a
\* transaction bad before the call or a bad transaction at an earlier
\* position of the block.
RECURSIVE Tainted(_, _, _)
Tainted(block, bad, t) ==
    \/ block.Transactions[t + 1].Hash \in bad
    \/ \E k \in 1..Len(block.Transactions[t + 1].TxIn) :
          LET origin == block.Transactions[t + 1].TxIn[k].Hash
          IN \/ origin \in bad
             \/ \E p \in 1..(t - 1) :
                   block.Transactions[p + 1].Hash = origin /\ Tainted(block, bad, p)

\* The transactions that are bad when the turn of position t comes.
BadAt(block, bad, t) ==
    bad \cup {block.Transactions[p + 1].Hash :
                 p \in {q \in 1..(t - 1) : Tainted(block, bad, q)}}

\* Input e of the block is processed: its transaction is not bad when its
\* turn comes and no input of it up to e names a bad transaction.
Processed(block, bad, e) ==
    /\ block.Transactions[e.t + 1].Hash \notin BadAt(block, bad, e.t)
    /\ \A k \in 0..e.k :
          block.Transactions[e.t + 1].TxIn[k + 1].Hash \notin BadAt(block, bad, e.t)

OrderIgnoringNil == SelectSeq(commonOrder \o tempOrder, LAMBDA x : x # Nil)

\* The nulled entries of commonOrder are a trailing suffix.
NilOnlyTrailing ==
    \A i, j \in 1..Len(commonOrder) :
        (i < j /\ commonOrder[i] = Nil) => commonOrder[j] = Nil

\* C35: after every AddBlock common_order followed by temp_order, ignoring
\* nulled entries, holds every indexed block exactly once (so no block is in
\* both sequences), no block of last_common is in temp_order, and the nulled
\* entries of common_order are a trailing suffix.
C35_OrderIsPermutation ==
    Added =>
        /\ Range(OrderIgnoringNil) = index
        /\ Len(OrderIgnoringNil) = Cardinality(index)
        /\ Range(commonOrder) \cap Range(tempOrder) = {}
        /\ lastCommonBlocks \cap Range(tempOrder) = {}
        /\ NilOnlyTrailing

\* What holds of the order in every state: it names every indexed block and
\* nothing else, and the nulled entries of commonOrder are a trailing suffix.
OrderCoversIndex ==
    Added => Range(OrderIgnoringNil) = index /\ NilOnlyTrailing

\* While the order has totalBlocks entries it is a permutation of the index.
PermutationWhenCounted ==
    (Added /\ GetCommonOrderNum(BlockDAG) + Len(tempOrder) = totalBlocks) =>
        /\ Len(OrderIgnoringNil) = Cardinality(index)
        /\ Range(commonOrder) \cap Range(tempOrder) = {}
        /\ lastCommonBlocks \cap Range(tempOrder) = {}

\* ---------------------------------------------------------------------------
\* Termination of the calls of the Rebroadcast (rebroadcast.go l.34-127)
\* ---------------------------------------------------------------------------

\* Goroutine c is inside AddInventory or RemoveInventory, past the test of
\* the shutdown flag.
InModify(c) == rbClients[c].pc \in {"checked", "send"}

\* C36: AddInventory and RemoveInventory called from a goroutine other than
\* the handler always return, under every interleaving with Start and Stop:
\* with Start called, a caller that has read the shutdown flag as 0 returns
\* in the end.  Stated for the behaviours in which the mempool keeps every
\* transaction, so that the handler never calls RemoveInventory itself.
C36_ModifyReturns ==
    [](rbMempool = InvHashes) =>
        \A c \in Clients :
            (InModify(c) /\ rbStarted >= 1) ~> (rbClients[c].pc = "idle")

\* The handler has drained and exited while goroutine c, which read the
\* shutdown flag as 0 before Stop set it, sends or is about to.
StrandedSender ==
    /\ rbHandler.pc = "done"
    /\ \E c \in Clients : InModify(c)

\* After the handler has exited no sender ever returns.
StrandedForever ==
    [][\A c \in Clients :
          (rbHandler.pc = "done" /\ InModify(c)) => InModify(c)']_vars

\* Goroutine c is inside the first Stop: past the counter, before its return.
InStop(c) == rbClients[c].pc \in {"close", "wait"}

\* C37: every first call to Stop eventually returns, whether Start was
\* called before it, after it or never, and whatever inventory is pending or
\* timer tick is being processed.
C37_StopReturns ==
    \A c \in Clients : InStop(c) ~> (rbClients[c].pc = "idle")

\* While the mempool keeps every transaction, every first Stop returns.
StopReturnsWhenNothingStale ==
    [](rbMempool = InvHashes) =>
        \A c \in Clients : InStop(c) ~> (rbClients[c].pc = "idle")

\* A first Stop waits for a handler that is sending on its own channel.
StopWaitsForBlockedHandler ==
    /\ SendsToItself
    /\ \E c \in Clients : rbClients[c].pc = "wait"

\* ---------------------------------------------------------------------------
\* connectTransaction returning an error (utxo.go l.361-417)
\* ---------------------------------------------------------------------------

\* The journal of the block being connected.
OpenJournal == IF chain = <<>> THEN <<>> ELSE chain[Len(chain)].stxos

\* The results of the connectTransaction calls that fail in this state, each
\* with the position k (0-based) of the first input whose entry is missing.
FailingConnects ==
    {[r |-> connectTransaction(utxoView, tx, Len(chain) + 1, 1,
                               [nil |-> FALSE, s |-> OpenJournal]),
      k |-> CHOOSE k \in 0..(Len(tx.TxIn) - 1) :
                /\ Entry(utxoView, tx.TxIn[k + 1].Hash).nil
                /\ \A j \in 0..(k - 1) : ~Entry(utxoView, tx.TxIn[j + 1].Hash).nil] :
        tx \in {t \in UNION {Txs(h, FALSE) : h \in KnownTxIds} :
                   \E i \in 1..Len(t.TxIn) : Entry(utxoView, t.TxIn[i].Hash).nil}}

\* C38: when connectTransaction returns an error the view and the journal
\* are exactly as before the call: no output has been marked spent and no
\* SpentTxOut has been appended, also when the missing entry belongs to an
\* input other than the first.
C38_ErrorLeavesViewAndJournal ==
    utxoErr = "nil" =>
        \A f \in FailingConnects :
            /\ f.r.err # "nil"
            /\ f.r.view = utxoView
            /\ f.r.stxos.s = OpenJournal

\* What holds instead: a failing call has appended one record for each input
\* before the first missing one, and the view is unchanged when that input
\* is the first.
ErrorKeepsEarlierInputs ==
    utxoErr = "nil" =>
        \A f \in FailingConnects :
            /\ f.r.err # "nil"
            /\ Len(f.r.stxos.s) = Len(OpenJournal) + f.k
            /\ f.k = 0 => (f.r.view = utxoView /\ f.r.stxos.s = OpenJournal)

\* ---------------------------------------------------------------------------
\* Termination of AddBlock (part_000 l.528-610, l.835-935)
\* ---------------------------------------------------------------------------

WalkLongerThan(tip, n) ==
    LET bd == Iterating(Ascending(index))
        start == [tipsAncestors |-> [v \in tips |-> {v}],
                  tipsGenealogy |-> [v \in tips |-> {v}]]
    IN /\ ~calLastCommonBlocksLoop(bd, tip, start, n).done
       /\ calLastCommonBlocks(bd, tip).done

====
